---- MODULE Spec2Model ----
(***************************************************************************)
(* Model of the drand http-relay backend pool: the pick_first_with_fallback *)
(* balancer and picker (src/grpc/fallback_balancer.go) and the backend      *)
(* client built on top of it (grpc.Client).                                 *)
(*                                                                          *)
(* Every region of the code that runs under fb.mu is one atomic step.  A    *)
(* Pick carrying skip_first takes the lock three times (first, second,      *)
(* dec), so it is three steps that other goroutines may interleave with.    *)
(***************************************************************************)
EXTENDS Integers, Sequences, FiniteSets, TLC

\* ------------------------------------------------------------------ bounds
NumSubConns == 3
MaxCalls == 1
MaxDec == 1
MaxRound == 2
MaxChains == 2
MaxTime == 6
MaxFrontrun == 1
MaxBehind == 3
MaxStream == 6

SubConns == 0 .. (NumSubConns - 1)
Calls == 1 .. MaxCalls

\* A Go pointer that may be nil: <<>> is nil, <<x>> points to x.
Nil == <<>>
Ptr(x) == <<x>>
Deref(p) == p[1]

VARIABLES
    scAddrs,       \* fb.scAddrs: SubConn -> [priority, order]
    picker,        \* the picker last returned by Build: "none", "err", "fb"
    closed,        \* fb.closing is closed and runBackgroundTimer has returned
    shutdown,      \* SubConns on which Shutdown() was called
    ccsErr,        \* what the last UpdateClientConnState returned
    calls,         \* per calling goroutine: the Pick / RPC in progress
    ops,           \* per calling goroutine: the client operation in progress
    knownChains,   \* Client.knownChains: key -> chain info
    now,           \* the wall clock, in ticks
    FrontrunTiming,\* the package variable, nil until init() has run
    handlers,      \* per serving goroutine: the HTTP request in progress
    watch,         \* per calling goroutine: the Watch stream and its channel
    resolved       \* the addresses FallbackResolver.start gave the channel, nil before

balVars == <<scAddrs, picker, closed, shutdown, ccsErr, resolved>>
web == <<now, FrontrunTiming, handlers, watch>>
vars == <<scAddrs, picker, closed, shutdown, ccsErr, calls, ops, knownChains,
          now, FrontrunTiming, handlers, watch, resolved>>

\* ------------------------------------------------------------ scWithAddr
\* The order attribute the resolver attached to the address of a SubConn:
\* its index in the operator's list.
AddrOrder(sc) == sc

NewSca(sc, order) == [sc |-> sc, priority |-> order, order |-> order]

\* a ResetPriority that forgets the assignment
ResetPriorityKeeps(s) == s

ResetPriority(s) == [s EXCEPT !.priority = s.order]

\* an UpdatePriority that applies half of the update
UpdatePriorityHalf(s, update) ==
    [s EXCEPT !.priority = s.priority + update \div 2]

UpdatePriority(s, update) == [s EXCEPT !.priority = s.priority + update]

\* an scCmp with its operands swapped: descending order
scCmpSwapped(s, t) ==
    IF s = Nil THEN 1
    ELSE IF t = Nil THEN -1
    ELSE Deref(t).priority - Deref(s).priority

\* scCmp(s, t): s is the slice element, t the target; nil is larger than
\* anything.
scCmp(s, t) ==
    IF s = Nil THEN 1
    ELSE IF t = Nil THEN -1
    ELSE Deref(s).priority - Deref(t).priority

\* slices.BinarySearchFunc(x, target, scCmp), as a 1-based insertion index:
\* the loop "for i < j { h := (i+j)/2; if cmp(x[h], t) < 0 {i = h+1} else {j = h} }"
\* over 0-based i, j.
RECURSIVE BinarySearchLoop(_, _, _, _)
BinarySearchLoop(x, target, i, j) ==
    IF i < j
    THEN LET h == (i + j) \div 2
         IN  IF scCmp(x[h + 1], target) < 0
             THEN BinarySearchLoop(x, target, h + 1, j)
             ELSE BinarySearchLoop(x, target, i, h)
    ELSE i

BinarySearchFunc(x, target) == BinarySearchLoop(x, target, 0, Len(x)) + 1

\* slices.Insert(scs, i, s)
SlicesInsert(scs, i, s) ==
    SubSeq(scs, 1, i - 1) \o <<s>> \o SubSeq(scs, i, Len(scs))

\* an insert that puts s at the end
insertAtEnd(scs, s) == IF s = Nil THEN scs ELSE Append(scs, s)

insert(scs, s) ==
    IF s = Nil THEN scs
    ELSE SlicesInsert(scs, BinarySearchFunc(scs, s), s)

\* "for _, sca := range fb.scAddrs { ret = insert(ret, sca) }" with the map
\* visited in the order iter (Go leaves the iteration order unspecified).
RECURSIVE InsertAll(_, _, _, _)
InsertAll(m, ret, iter, k) ==
    IF k > Len(iter) THEN ret
    ELSE InsertAll(m, insert(ret, Ptr(m[iter[k]])), iter, k + 1)

\* the iteration orders of a map
RangeOrders(m) ==
    LET S == DOMAIN m
    IN  { p \in [1 .. Cardinality(S) -> S] :
            \A a, b \in 1 .. Cardinality(S) : a # b => p[a] # p[b] }

first(m, iter) ==
    IF Cardinality(DOMAIN m) = 1
    THEN Ptr(m[iter[1]])
    ELSE InsertAll(m, <<Nil>>, iter, 1)[1]

second(m, iter) ==
    IF Cardinality(DOMAIN m) < 2
    THEN Nil
    ELSE InsertAll(m, <<>>, iter, 1)[2]

Restrict(m, S) == [sc \in S |-> m[sc]]

\* a dec that takes "negative priority disables it" literally and drops
\* the entry once its priority is negative
decMapDisables(m, sc) ==
    IF sc \in DOMAIN m
    THEN IF m[sc].priority - 2 < 0
         THEN Restrict(m, DOMAIN m \ {sc})
         ELSE [m EXCEPT ![sc] = UpdatePriority(m[sc], -2)]
    ELSE m

\* a dec that demotes every entry instead of the picked one
decMapAll(m, sc) ==
    IF sc \in DOMAIN m
    THEN [x \in DOMAIN m |-> UpdatePriority(m[x], -2)]
    ELSE m

\* fb.dec(sc), without the bound
decMap(m, sc) ==
    IF sc \in DOMAIN m
    THEN [m EXCEPT ![sc] = UpdatePriority(m[sc], -2)]
    ELSE m

\* dec may act while the entry has been demoted fewer than MaxDec times
CanDec(m, sc) ==
    sc \in DOMAIN m => m[sc].order - (m[sc].priority - 2) <= 2 * MaxDec

\* ------------------------------------------------------------------ Init
IdleCall == [pc |-> "idle", skip |-> FALSE, picked |-> Nil, second |-> Nil,
             res |-> "none"]
\* A serving goroutine with no request: no response written yet.
NoRequest == [handler |-> "none", pc |-> "idle", m |-> Nil, round |-> 0,
              isV2 |-> FALSE, info |-> Nil, nextTime |-> 0, nextRound |-> 0,
              wake |-> 0, cancelled |-> FALSE, fetched |-> <<>>, resp |-> Nil]

\* A goroutine that has not called Watch: no stream, no channel.
NoWatch == [pc |-> "idle", cancelled |-> FALSE, ch |-> <<>>, closed |-> FALSE,
            next |-> Nil, recvd |-> 0, ret |-> "none", ended |-> FALSE]

NoOp == [op |-> "none", ctx |-> Nil, in |-> Nil, pc |-> "idle", log |-> <<>>,
         metadatas |-> <<>>, chains |-> <<>>, ret |-> Nil]

Init ==
    /\ scAddrs = << >>
    /\ picker = "none"
    /\ closed = FALSE
    /\ shutdown = {}
    /\ ccsErr = "nil"
    /\ calls = [c \in Calls |-> IdleCall]
    /\ ops = [c \in Calls |-> NoOp]
    /\ knownChains = << >>
    /\ now = 0
    /\ FrontrunTiming = Nil
    /\ handlers = [c \in Calls |-> NoRequest]
    /\ watch = [c \in Calls |-> NoWatch]
    /\ resolved = Nil

\* ------------------------------------------------- background goroutine
\* case <-ticker.C: every entry gets priority = order
Tick ==
    /\ ~closed
    /\ scAddrs' = [sc \in DOMAIN scAddrs |-> ResetPriority(scAddrs[sc])]
    /\ UNCHANGED <<picker, closed, shutdown, ccsErr, calls, ops, knownChains, web, resolved>>

\* fallbackBalancer.Close closes fb.closing; the goroutine's
\* "case <-fb.closing" then empties the map and returns.  The channel
\* calls neither Build nor UpdateClientConnState after Close, and a tick
\* or a pick between the two halves sees the state it would see before
\* Close, so the two halves are one step.
Close ==
    /\ ~closed
    /\ closed' = TRUE
    /\ scAddrs' = << >>
    /\ UNCHANGED <<picker, shutdown, ccsErr, calls, ops, knownChains, web, resolved>>

\* ------------------------------------------------------- reconciliation
\* The map Build leaves behind for info.ReadySCs = ready.  hasOrder says
\* whether the addresses carry the int attribute "order" (the resolver
\* attaches it to all of its addresses or to none); without it every READY
\* SubConn is skipped by "continue".
BuildMap(m, ready, hasOrder) ==
    LET kept == Restrict(m, DOMAIN m \cap ready)
        fresh == IF hasOrder THEN ready ELSE {}
    IN  [sc \in DOMAIN kept \cup fresh |->
            IF sc \in fresh THEN NewSca(sc, AddrOrder(sc)) ELSE kept[sc]]

Build(ready, hasOrder) ==
    /\ ~closed
    /\ ready \subseteq SubConns \ shutdown
    /\ IF ready = {}
       THEN /\ picker' = "err"
            /\ UNCHANGED scAddrs
       ELSE /\ picker' = "fb"
            /\ scAddrs' = BuildMap(scAddrs, ready, hasOrder)
    /\ UNCHANGED <<closed, shutdown, ccsErr, calls, ops, knownChains, web, resolved>>

\* an UpdateClientConnState that shuts the SubConns down but keeps them
UpdateClientConnStateKeeps(zero) ==
    /\ ~closed
    /\ IF zero
       THEN /\ shutdown' = shutdown \cup DOMAIN scAddrs
            /\ ccsErr' = "ErrBadResolverState"
            /\ UNCHANGED scAddrs
       ELSE /\ ccsErr' = "nil"
            /\ UNCHANGED <<scAddrs, shutdown>>
    /\ UNCHANGED <<picker, closed, calls, ops, knownChains, web, resolved>>

\* UpdateClientConnState with len(addrs) = 0 (zero = TRUE) or more.  The
\* embedded base balancer keeps its own SubConn table, so its ResolverError
\* and UpdateClientConnState do not touch fb's state.
UpdateClientConnState(zero) ==
    /\ ~closed
    /\ IF zero
       THEN /\ shutdown' = shutdown \cup DOMAIN scAddrs
            /\ scAddrs' = << >>
            /\ ccsErr' = "ErrBadResolverState"
       ELSE /\ ccsErr' = "nil"
            /\ UNCHANGED <<scAddrs, shutdown>>
    /\ UNCHANGED <<picker, closed, calls, ops, knownChains, web, resolved>>

\* ----------------------------------------------------------- picker.Pick
\* what p.fb.first() / p.fb.second() may return, over the iteration orders
\* of the map; Pick uses only sc and addr of the result
firstResults(m) ==
    { IF first(m, iter) = Nil THEN Nil ELSE Ptr(Deref(first(m, iter)).sc) :
        iter \in RangeOrders(m) }

secondResults(m) ==
    { IF second(m, iter) = Nil THEN Nil ELSE Ptr(Deref(second(m, iter)).sc) :
        iter \in RangeOrders(m) }

PickFailed == [IdleCall EXCEPT !.res = "ErrNoSubConnAvailable"]

\* Pick up to and including p.fb.first().  Without skip the pick is decided
\* here.  A picker built for an empty READY set is base.NewErrPicker.
PickFirst(c, skip) ==
    /\ calls[c].pc = "idle"
    /\ picker # "none"
    /\ IF picker = "err"
       THEN calls' = [calls EXCEPT ![c] = PickFailed]
       ELSE \E picked \in firstResults(scAddrs) :
              IF skip
              THEN calls' = [calls EXCEPT ![c] =
                          [pc |-> "second", skip |-> TRUE,
                           picked |-> picked, second |-> Nil,
                           res |-> "none"]]
              ELSE IF picked = Nil
              THEN calls' = [calls EXCEPT ![c] = PickFailed]
              ELSE calls' = [calls EXCEPT ![c] =
                          [pc |-> "rpc", skip |-> FALSE,
                           picked |-> picked, second |-> Nil,
                           res |-> "ok"]]
    /\ UNCHANGED <<balVars, ops, knownChains, web>>

\* "second := p.fb.second()" of a pick carrying skip
PickSecond(c) ==
    /\ calls[c].pc = "second"
    /\ \E s \in secondResults(scAddrs) :
         IF s # Nil
         THEN calls' = [calls EXCEPT ![c].pc = "dec", ![c].second = s]
         ELSE IF calls[c].picked = Nil
         THEN calls' = [calls EXCEPT ![c] = PickFailed]
         ELSE calls' = [calls EXCEPT ![c].pc = "rpc", ![c].res = "ok"]
    /\ UNCHANGED <<balVars, ops, knownChains, web>>

\* "p.fb.dec(picked.sc); picked = second".  picked.addr and picked.sc are
\* read first: a nil picked is a nil pointer dereference.
PickDec(c) ==
    /\ calls[c].pc = "dec"
    /\ IF calls[c].picked = Nil
       THEN /\ calls' = [calls EXCEPT ![c] =
                   [IdleCall EXCEPT !.res = "panic"]]
            /\ UNCHANGED scAddrs
       ELSE /\ CanDec(scAddrs, Deref(calls[c].picked))
            /\ scAddrs' = decMap(scAddrs, Deref(calls[c].picked))
            /\ calls' = [calls EXCEPT ![c].pc = "rpc",
                                      ![c].picked = calls[c].second,
                                      ![c].second = Nil,
                                      ![c].res = "ok"]
    /\ UNCHANGED <<picker, closed, shutdown, ccsErr, ops, knownChains, web, resolved>>

\* The Done closure of the pick result, called with info.Err # nil (err)
\* or nil when the RPC has completed.
Done(c, err) ==
    /\ calls[c].pc = "rpc"
    /\ IF err
       THEN /\ CanDec(scAddrs, Deref(calls[c].picked))
            /\ scAddrs' = decMap(scAddrs, Deref(calls[c].picked))
       ELSE UNCHANGED scAddrs
    /\ calls' = [calls EXCEPT ![c] = IdleCall]
    /\ UNCHANGED <<picker, closed, shutdown, ccsErr, ops, knownChains, web, resolved>>

Reconcile == \E ready \in SUBSET SubConns, hasOrder \in BOOLEAN :
                Build(ready, hasOrder)

ResolverUpdate == \E zero \in BOOLEAN : UpdateClientConnState(zero)

InvokeRPC == \E c \in Calls, skip \in BOOLEAN : PickFirst(c, skip)

SecondLookup == \E c \in Calls : PickSecond(c)

Demote == \E c \in Calls : PickDec(c)

RPCDone == \E c \in Calls, err \in BOOLEAN : Done(c, err)

\* The pool in service: picks, completions, ticker resets, reconciliations.
Next ==
    \/ Tick
    \/ Reconcile
    \/ InvokeRPC
    \/ SecondLookup
    \/ Demote
    \/ RPCDone

Spec == Init /\ [][Next]_vars

\* runBackgroundTimer re-arms its timer after every tick, so a tick that
\* stays possible eventually happens.
FairSpec == Spec /\ WF_vars(Tick)

\* ------------------------------------------------------------- logPicker
\* balancer.DoneInfo as the logging picker reads it: whether Err is set,
\* BytesSent, BytesReceived
DoneInfos == [Err : BOOLEAN, BytesSent : BOOLEAN, BytesReceived : BOOLEAN]

\* "info.Err == nil && info.BytesSent == info.BytesReceived &&
\*  info.BytesSent == false"
NotReady(info) ==
    ~info.Err /\ info.BytesSent = info.BytesReceived /\ info.BytesSent = FALSE

\* the call is over and the Done closure of the wrapped picker was not run
NotForwarded == [IdleCall EXCEPT !.res = "not forwarded"]

\* logPicker.Pick: "result, err := p.sub.Pick(i)", then the SubConn, the
\* metadata and the error of the wrapped pick are returned as they are
LogPick(c, skip) == PickFirst(c, skip)

\* a Done closure that forwards only what carries bytes
LogDoneBytesOnly(c, info) ==
    IF ~info.BytesSent /\ ~info.BytesReceived
    THEN /\ calls[c].pc = "rpc"
         /\ calls' = [calls EXCEPT ![c] = NotForwarded]
         /\ UNCHANGED <<balVars, ops, knownChains, web>>
    ELSE Done(c, info.Err)

\* The Done closure logPicker.Pick returns: it returns early on a
\* DoneInfo without error and without bytes, and runs result.Done(info)
\* otherwise.
LogDone(c, info) ==
    IF NotReady(info)
    THEN /\ calls[c].pc = "rpc"
         /\ calls' = [calls EXCEPT ![c] = NotForwarded]
         /\ UNCHANGED <<balVars, ops, knownChains, web>>
    ELSE Done(c, info.Err)

InvokeLoggedRPC == \E c \in Calls, skip \in BOOLEAN : LogPick(c, skip)

LoggedRPCDone == \E c \in Calls, info \in DoneInfos : LogDone(c, info)

\* The pool behind the logging balancer: the channel holds the logPicker
\* that wrappedClientConn.UpdateState put around every picker.
NextLogging ==
    \/ Tick
    \/ Reconcile
    \/ InvokeLoggedRPC
    \/ SecondLookup
    \/ Demote
    \/ LoggedRPCDone

SpecLogging == Init /\ [][NextLogging]_vars

\* The pool between two ticks of the background timer.
NextBetweenTicks ==
    \/ Reconcile
    \/ InvokeRPC
    \/ SecondLookup
    \/ Demote
    \/ RPCDone

SpecBetweenTicks == Init /\ [][NextBetweenTicks]_vars

\* The same with the resolver updates and the shutdown of the balancer.
NextLifecycle ==
    \/ Next
    \/ ResolverUpdate
    \/ Close

SpecLifecycle == Init /\ [][NextLifecycle]_vars

\* ------------------------------------------------------------ grpc.Client
\* Strings are sequences of characters, byte slices sequences of 0..255.
HexDigits == <<"0", "1", "2", "3", "4", "5", "6", "7",
               "8", "9", "a", "b", "c", "d", "e", "f">>

RECURSIVE HexEncodeToString(_)
HexEncodeToString(bytes) ==
    IF bytes = <<>> THEN <<>>
    ELSE <<HexDigits[(Head(bytes) \div 16) + 1], HexDigits[(Head(bytes) % 16) + 1]>>
         \o HexEncodeToString(Tail(bytes))

\* The values the backends and the callers may put in a proto.Metadata:
\* a missing or present chain hash, a missing or present beacon ID.
ChainHashes == { <<>>, <<171>> }
BeaconIDs == { <<>>, <<"d">> }
Metadatas == [chainHash : ChainHashes, beaconID : BeaconIDs]

\* The chain the backends serve: its period and genesis time, in seconds.
Period == 2
GenesisTime == 0

\* The contexts a caller passes: with or without SkipCtxKey, no deadline of
\* the client's own.
Ctxs == [skip : BOOLEAN, timeout : {"none"}]

WithTimeout(ctx) == [ctx EXCEPT !.timeout = "checkTimeout"]

RPCErrors == { "Unavailable", "DeadlineExceeded" }

\* the rounds a caller asks for: the latest, or a given one
Rounds == { 0, 1 }

\* proto.PublicRandResponse values a backend may answer with
PublicRandResponses ==
    [round : 1 .. MaxRound, signature : { <<1>> },
     previous_signature : { <<2>> }, randomness : { <<3>> }]

NewHexBeacon(r) ==
    [Round |-> r.round, Randomness |-> <<>>,
     Signature |-> r.signature, PreviousSignature |-> r.previous_signature]

\* proto.ChainInfoPacket values a backend may answer with
ChainInfoPackets ==
    [hash : ChainHashes, metadata : Metadatas,
     period : { Period }, genesisTime : { GenesisTime }]

NewInfoV2(resp) ==
    [Hash |-> resp.metadata.chainHash, BeaconId |-> resp.metadata.beaconID,
     Period |-> resp.period, GenesisTime |-> resp.genesisTime]

\* proto.ListBeaconIDsResponse values: of the ids only their number is read,
\* of a metadata only its chain hash.
SeqsUpTo(S, n) == UNION { [1 .. k -> S] : k \in 0 .. n }

ListedMetadatas == [chainHash : ChainHashes, beaconID : { <<"d">> }]

ListBeaconIDsResponses ==
    [ids : 0 .. MaxChains, metadatas : SeqsUpTo(ListedMetadatas, MaxChains)]

HealthStatuses == { "SERVING", "NOT_SERVING" }

\* a Store that evicts every other key
StoreEvicts(m, key, value) == [k \in {key} |-> value]

\* sync.Map
Load(m, key) == IF key \in DOMAIN m THEN Ptr(m[key]) ELSE Nil

Store(m, key, value) == [k \in DOMAIN m \cup {key} |-> IF k = key THEN value ELSE m[k]]

\* One RPC of a client operation as the caller sees it: the method, the
\* context and request it was invoked with, and the reply or the error.
Attempt(rpc, ctx, in, out) == [rpc |-> rpc, ctx |-> ctx, in |-> in, out |-> out]

Ok(resp) == [err |-> "nil", resp |-> Ptr(resp)]
Failed(e) == [err |-> e, resp |-> Nil]

Return(err, val) == Ptr([err |-> err, val |-> val])

Idle(c) == ops[c].ret # Nil \/ ops[c].op = "none"

PublicRandOutcomes ==
    { Ok(r) : r \in PublicRandResponses } \cup { Failed(e) : e \in RPCErrors }

\* GetBeacon up to the return of its first PublicRand.
GetBeacon(c, ctx, m, round, out) ==
    /\ Idle(c)
    /\ LET in == [Round |-> round, Metadata |-> m]
           op == [NoOp EXCEPT !.op = "GetBeacon", !.ctx = Ptr(ctx), !.in = Ptr(in),
                              !.log = <<Attempt("PublicRand", ctx, in, out)>>]
       IN  ops' = [ops EXCEPT ![c] =
                IF out.err # "nil"
                THEN [op EXCEPT !.pc = "retry"]
                ELSE [op EXCEPT !.ret = Return("nil", Ptr(NewHexBeacon(Deref(out.resp))))]]
    /\ UNCHANGED <<balVars, calls, knownChains, web>>

\* a GetBeacon that keeps retrying while the retry fails
GetBeaconRetryAgain(c, out) ==
    /\ ops[c].op = "GetBeacon" /\ ops[c].pc = "retry"
    /\ LET ctx == Deref(ops[c].ctx)
           in == Deref(ops[c].in)
           log == Append(ops[c].log, Attempt("PublicRand", ctx, in, out))
       IN  ops' = [ops EXCEPT ![c] =
                IF out.err # "nil"
                THEN [@ EXCEPT !.log = log]
                ELSE [@ EXCEPT !.log = log, !.pc = "idle",
                               !.ret = Return("nil", Ptr(NewHexBeacon(Deref(out.resp))))]]
    /\ UNCHANGED <<balVars, calls, knownChains, web>>

\* The second PublicRand of GetBeacon, with the same ctx and request.
GetBeaconRetry(c, out) ==
    /\ ops[c].op = "GetBeacon" /\ ops[c].pc = "retry"
    /\ LET ctx == Deref(ops[c].ctx)
           in == Deref(ops[c].in)
           log == Append(ops[c].log, Attempt("PublicRand", ctx, in, out))
       IN  ops' = [ops EXCEPT ![c] =
                IF out.err # "nil"
                THEN [@ EXCEPT !.log = log, !.pc = "idle", !.ret = Return(out.err, Nil)]
                ELSE [@ EXCEPT !.log = log, !.pc = "idle",
                               !.ret = Return("nil", Ptr(NewHexBeacon(Deref(out.resp))))]]
    /\ UNCHANGED <<balVars, calls, knownChains, web>>

CheckOutcomes ==
    { Ok(st) : st \in HealthStatuses } \cup { Failed(e) : e \in RPCErrors }

\* what Check returns once it holds a response
CheckStatus(resp) ==
    IF resp # "SERVING" THEN Return("grpc health: not serving", Nil)
    ELSE Return("nil", Nil)

\* Check up to the return of its first health RPC, made with tctx.
Check(c, ctx, out) ==
    /\ Idle(c)
    /\ LET tctx == WithTimeout(ctx)
           op == [NoOp EXCEPT !.op = "Check", !.ctx = Ptr(ctx),
                              !.log = <<Attempt("Check", tctx, Nil, out)>>]
       IN  ops' = [ops EXCEPT ![c] =
                IF out.err # "nil"
                THEN [op EXCEPT !.pc = "retry"]
                ELSE [op EXCEPT !.ret = CheckStatus(Deref(out.resp))]]
    /\ UNCHANGED <<balVars, calls, knownChains, web>>

\* The second health RPC of Check, made with ctx.
CheckRetry(c, out) ==
    /\ ops[c].op = "Check" /\ ops[c].pc = "retry"
    /\ LET ctx == Deref(ops[c].ctx)
           log == Append(ops[c].log, Attempt("Check", ctx, Nil, out))
       IN  ops' = [ops EXCEPT ![c] =
                IF out.err # "nil"
                THEN [@ EXCEPT !.log = log, !.pc = "idle", !.ret = Return(out.err, Nil)]
                ELSE [@ EXCEPT !.log = log, !.pc = "idle",
                               !.ret = CheckStatus(Deref(out.resp))]]
    /\ UNCHANGED <<balVars, calls, knownChains, web>>

ChainInfoOutcomes ==
    { Ok(r) : r \in ChainInfoPackets } \cup { Failed(e) : e \in RPCErrors }

\* the key GetChainInfo looks up
CacheKey(m) == HexEncodeToString(m.chainHash) \o m.beaconID

\* a GetChainInfo that never looks the key up
GetChainInfoAlwaysMisses(c, ctx, m) ==
    /\ Idle(c)
    /\ ops' = [ops EXCEPT ![c] =
            [NoOp EXCEPT !.op = "GetChainInfo", !.ctx = Ptr(ctx),
                         !.in = Ptr([Metadata |-> m]), !.pc = "rpc"]]
    /\ UNCHANGED <<balVars, calls, knownChains, web>>

\* GetChainInfo up to its return on a cache hit, or up to the call of
\* ChainInfo on a miss.
GetChainInfo(c, ctx, m) ==
    /\ Idle(c)
    /\ LET info == Load(knownChains, CacheKey(m))
           op == [NoOp EXCEPT !.op = "GetChainInfo", !.ctx = Ptr(ctx),
                              !.in = Ptr([Metadata |-> m])]
       IN  ops' = [ops EXCEPT ![c] =
                IF info # Nil
                THEN [op EXCEPT !.ret = Return("nil", info)]
                ELSE [op EXCEPT !.pc = "rpc"]]
    /\ UNCHANGED <<balVars, calls, knownChains, web>>

\* a GetChainInfo that calls ChainInfo again when it failed
GetChainInfoReplyRetries(c, out) ==
    /\ ops[c].op = "GetChainInfo" /\ ops[c].pc = "rpc"
    /\ LET ctx == Deref(ops[c].ctx)
           in == Deref(ops[c].in)
           log == Append(ops[c].log, Attempt("ChainInfo", ctx, in, out))
       IN  IF out.err # "nil"
           THEN /\ ops' = [ops EXCEPT ![c] =
                      IF Len(log) < 2 THEN [@ EXCEPT !.log = log]
                      ELSE [@ EXCEPT !.log = log, !.pc = "idle",
                                     !.ret = Return(out.err, Nil)]]
                /\ UNCHANGED knownChains
           ELSE LET info == NewInfoV2(Deref(out.resp))
                IN  /\ knownChains' =
                          Store(Store(knownChains, HexEncodeToString(info.Hash), info),
                                info.BeaconId, info)
                    /\ ops' = [ops EXCEPT ![c] =
                          [@ EXCEPT !.log = log, !.pc = "idle",
                                    !.ret = Return("nil", Ptr(info))]]
    /\ UNCHANGED <<balVars, calls, web>>

\* The return of the ChainInfo RPC of GetChainInfo and the rest of the
\* function: the two Stores and the return.
GetChainInfoReply(c, out) ==
    /\ ops[c].op = "GetChainInfo" /\ ops[c].pc = "rpc"
    /\ LET ctx == Deref(ops[c].ctx)
           in == Deref(ops[c].in)
           log == Append(ops[c].log, Attempt("ChainInfo", ctx, in, out))
       IN  IF out.err # "nil"
           THEN /\ ops' = [ops EXCEPT ![c] =
                      [@ EXCEPT !.log = log, !.pc = "idle",
                                !.ret = Return(out.err, Nil)]]
                /\ UNCHANGED knownChains
           ELSE LET info == NewInfoV2(Deref(out.resp))
                IN  /\ knownChains' =
                          Store(Store(knownChains, HexEncodeToString(info.Hash), info),
                                info.BeaconId, info)
                    /\ ops' = [ops EXCEPT ![c] =
                          [@ EXCEPT !.log = log, !.pc = "idle",
                                    !.ret = Return("nil", Ptr(info))]]
    /\ UNCHANGED <<balVars, calls, web>>

ListBeaconIDsOutcomes ==
    { Ok(r) : r \in ListBeaconIDsResponses } \cup { Failed(e) : e \in RPCErrors }

\* GetChains up to the start of its loop over the metadatas.
GetChains(c, ctx, out) ==
    /\ Idle(c)
    /\ LET op == [NoOp EXCEPT !.op = "GetChains", !.ctx = Ptr(ctx),
                              !.log = <<Attempt("ListBeaconIDs", ctx, Nil, out)>>]
       IN  ops' = [ops EXCEPT ![c] =
                IF out.err # "nil"
                THEN [op EXCEPT !.ret = Return(out.err, Nil)]
                ELSE IF Deref(out.resp).ids # Len(Deref(out.resp).metadatas)
                THEN [op EXCEPT !.ret = Return("invalid response", Nil)]
                ELSE [op EXCEPT !.pc = "loop",
                                !.metadatas = Deref(out.resp).metadatas]]
    /\ UNCHANGED <<balVars, calls, knownChains, web>>

\* One iteration of the loop up to "continue" on a cache hit or up to the
\* call of ChainInfo on a miss; the return once the metadatas are used up.
GetChainsLoop(c) ==
    /\ ops[c].op = "GetChains" /\ ops[c].pc = "loop"
    /\ IF ops[c].metadatas = <<>>
       THEN ops' = [ops EXCEPT ![c].pc = "idle",
                               ![c].ret = Return("nil", Ptr(ops[c].chains))]
       ELSE LET chain == Head(ops[c].metadatas).chainHash
                strChain == HexEncodeToString(chain)
                chains == Append(ops[c].chains, strChain)
            IN  IF Load(knownChains, strChain) # Nil
                THEN ops' = [ops EXCEPT ![c].chains = chains,
                                        ![c].metadatas = Tail(ops[c].metadatas)]
                ELSE ops' = [ops EXCEPT ![c].chains = chains, ![c].pc = "rpc",
                                        ![c].in = Ptr([Metadata |->
                                            [chainHash |-> chain, beaconID |-> <<>>]])]
    /\ UNCHANGED <<balVars, calls, knownChains, web>>

\* The return of the ChainInfo RPC of the loop and the rest of the
\* iteration.
GetChainsReply(c, out) ==
    /\ ops[c].op = "GetChains" /\ ops[c].pc = "rpc"
    /\ LET ctx == Deref(ops[c].ctx)
           in == Deref(ops[c].in)
           chain == in.Metadata.chainHash
           strChain == HexEncodeToString(chain)
           log == Append(ops[c].log, Attempt("ChainInfo", ctx, in, out))
       IN  IF out.err # "nil"
           THEN /\ ops' = [ops EXCEPT ![c].log = log, ![c].pc = "idle",
                                      ![c].ret = Return(out.err, Nil)]
                /\ UNCHANGED knownChains
           ELSE LET info == Deref(out.resp)
                    id == info.metadata.beaconID
                    stored == Store(knownChains, strChain, NewInfoV2(info))
                IN  IF chain # info.hash
                    THEN /\ ops' = [ops EXCEPT ![c].log = log, ![c].pc = "idle",
                                        ![c].ret = Return("invalid chainhash", Nil)]
                         /\ UNCHANGED knownChains
                    ELSE /\ ops' = [ops EXCEPT ![c].log = log, ![c].pc = "loop",
                                        ![c].metadatas = Tail(ops[c].metadatas)]
                         /\ knownChains' =
                               IF id # <<>> THEN Store(stored, id, NewInfoV2(info))
                               ELSE stored
    /\ UNCHANGED <<balVars, calls, web>>

FetchBeacon == \E c \in Calls, ctx \in Ctxs, m \in Metadatas, round \in Rounds,
                  out \in PublicRandOutcomes : GetBeacon(c, ctx, m, round, out)

FetchBeaconAgain == \E c \in Calls, out \in PublicRandOutcomes : GetBeaconRetry(c, out)

HealthCheck == \E c \in Calls, ctx \in Ctxs, out \in CheckOutcomes : Check(c, ctx, out)

HealthCheckAgain == \E c \in Calls, out \in CheckOutcomes : CheckRetry(c, out)

LookupChain == \E c \in Calls, ctx \in Ctxs, m \in Metadatas : GetChainInfo(c, ctx, m)

ChainReply == \E c \in Calls, out \in ChainInfoOutcomes : GetChainInfoReply(c, out)

ListChains == \E c \in Calls, ctx \in Ctxs, out \in ListBeaconIDsOutcomes :
                  GetChains(c, ctx, out)

NextChain == \E c \in Calls : GetChainsLoop(c)

ListedChainReply == \E c \in Calls, out \in ChainInfoOutcomes : GetChainsReply(c, out)

\* The operations of the client that retry: each RPC is a step whose
\* outcome the backend pool decides.
NextClient ==
    \/ FetchBeacon
    \/ FetchBeaconAgain
    \/ HealthCheck
    \/ HealthCheckAgain

SpecClient == Init /\ [][NextClient]_vars

\* The operations of the client that go through the chain-info cache.
NextChains ==
    \/ LookupChain
    \/ ChainReply
    \/ ListChains
    \/ NextChain
    \/ ListedChainReply

SpecChains == Init /\ [][NextChains]_vars

\* ------------------------------------------------------------ http handlers
\* Time is counted in ticks; a second is two of them, so that the clock can
\* stand between two values of time.Now().Unix().
Second == 2

\* the --frontrun flag counts ticks here
Millisecond == 1

Unix(t) == t \div Second

\* Go's integer division truncates toward zero.
GoDiv(a, b) == IF a >= 0 THEN a \div b ELSE -((-a) \div b)

\* info.ExpectedNext() read at clock t.  nextRound is uint64(expected) in
\* the representation of Uint64Sub: a negative expected stands for the
\* value 2^64 + expected.
ExpectedNext(info, t) ==
    LET p == info.Period
        expected == GoDiv(Unix(t) - info.GenesisTime, p) + 1
    IN  [nextTime |-> expected * p + info.GenesisTime, nextRound |-> expected]

\* A Cache-Control value is the sequence of its directives.
Flag(name) == [name |-> name, arg |-> Nil]
MaxAge(n) == [name |-> "max-age", arg |-> Ptr(n)]

ImmutableMaxAge == 604800

\* "must-revalidate, no-cache, max-age=0"
NoCaching == <<Flag("must-revalidate"), Flag("no-cache"), MaxAge(0)>>

\* "public, max-age=604800, immutable"
Immutable == <<Flag("public"), MaxAge(ImmutableMaxAge), Flag("immutable")>>

\* fmt.Sprintf("public, must-revalidate, max-age=%d", cacheTime)
Revalidate(cacheTime) == <<Flag("public"), Flag("must-revalidate"), MaxAge(cacheTime)>>

\* What the handler has written: the status, the Cache-Control header
\* (nil when it set none) and the body.
Response(status, cacheControl, body) ==
    Ptr([status |-> status, cacheControl |-> cacheControl, body |-> body])

\* hex.DecodeString: nil on an odd length or a character that is no digit;
\* the digits a..f are taken in either case
UpperHexDigits == <<"A", "B", "C", "D", "E", "F">>

IsHexDigit(ch) ==
    \/ \E i \in 1 .. 16 : HexDigits[i] = ch
    \/ \E i \in 1 .. 6 : UpperHexDigits[i] = ch

HexValue(ch) ==
    IF \E i \in 1 .. 16 : HexDigits[i] = ch
    THEN (CHOOSE i \in 1 .. 16 : HexDigits[i] = ch) - 1
    ELSE (CHOOSE i \in 1 .. 6 : UpperHexDigits[i] = ch) + 9

RECURSIVE HexDecodePairs(_)
HexDecodePairs(str) ==
    IF str = <<>> THEN <<>>
    ELSE <<HexValue(str[1]) * 16 + HexValue(str[2])>>
         \o HexDecodePairs(SubSeq(str, 3, Len(str)))

HexDecodeString(str) ==
    IF Len(str) % 2 # 0 \/ \E i \in 1 .. Len(str) : ~IsHexDigit(str[i])
    THEN Nil
    ELSE Ptr(HexDecodePairs(str))

DefaultBeaconID == <<"d">>

\* createRequestMD: nil when the chain hash is not hex
createRequestMD(chainhash, beaconID) ==
    IF chainhash = <<>> /\ beaconID = <<>>
    THEN Ptr([chainHash |-> <<>>, beaconID |-> DefaultBeaconID])
    ELSE IF beaconID # <<>> /\ chainhash = <<>>
    THEN Ptr([chainHash |-> <<>>, beaconID |-> beaconID])
    ELSE IF HexDecodeString(chainhash) = Nil
    THEN Nil
    ELSE Ptr([chainHash |-> Deref(HexDecodeString(chainhash)), beaconID |-> <<>>])

\* The URL parameters the routes let through: a chain hash, a beacon ID,
\* or neither.
RouteParams ==
    { [chainhash |-> <<>>, beaconID |-> <<>>],
      [chainhash |-> <<"a", "b">>, beaconID |-> <<>>],
      [chainhash |-> <<>>, beaconID |-> <<"d">>] }

\* strconv.ParseUint(str, 10, 64): nil on a value out of range.  The
\* routes let through digits only.
MaxUint64Digits ==
    <<"1", "8", "4", "4", "6", "7", "4", "4", "0", "7",
      "3", "7", "0", "9", "5", "5", "1", "6", "1", "5">>

DigitValue(ch) == HexValue(ch)

RECURSIVE DigitsGreater(_, _)
DigitsGreater(str, max) ==
    IF str = <<>> THEN FALSE
    ELSE IF DigitValue(Head(str)) # DigitValue(Head(max))
    THEN DigitValue(Head(str)) > DigitValue(Head(max))
    ELSE DigitsGreater(Tail(str), Tail(max))

RECURSIVE ParseDigits(_, _)
ParseDigits(str, acc) ==
    IF str = <<>> THEN acc
    ELSE ParseDigits(Tail(str), acc * 10 + DigitValue(Head(str)))

ParseUint(str) ==
    IF \/ Len(str) > Len(MaxUint64Digits)
       \/ Len(str) = Len(MaxUint64Digits) /\ DigitsGreater(str, MaxUint64Digits)
    THEN Nil
    ELSE Ptr(ParseDigits(str, 0))

\* The round parameters of the requests: the latest, rounds around the
\* expected one, and one that does not fit 64 bits.
RoundParams ==
    { <<HexDigits[r + 1]>> : r \in 0 .. (MaxRound + 1) }
    \cup { [i \in 1 .. Len(MaxUint64Digits) |-> "9"] }

\* r.Context(): cancelled when the client goes away or the server shuts down
RequestCtx == [skip |-> FALSE, timeout |-> "none"]

\* the errors of an RPC made with a cancelled context: the context's own,
\* or the status the transport builds from it
CanceledErrors ==
    { "context canceled", "rpc error: code = Canceled desc = context canceled" }

UnknownChainHash == "rpc error: code = Unknown desc = unknown chain hash"

\* errors.Is(err, context.Canceled)
IsContextCanceled(err) == err = "context canceled"

\* strings.Contains(err.Error(), "unknown chain hash")
ContainsUnknownChainHash(err) == err = UnknownChainHash

\* the outcomes of an RPC of the request served by goroutine c
RequestOutcomes(c, resps, errs) ==
    IF handlers[c].cancelled
    THEN { Failed(e) : e \in CanceledErrors }
    ELSE { Ok(r) : r \in resps } \cup { Failed(e) : e \in errs }

Serving(c) == handlers[c].handler # "none" /\ handlers[c].resp = Nil

\* the client call the handler is waiting for has returned
Returned(c, op) == ops[c].op = op /\ ops[c].ret # Nil

RECURSIVE SumBytes(_)
SumBytes(bytes) == IF bytes = <<>> THEN 0 ELSE Head(bytes) + SumBytes(Tail(bytes))

\* crypto.RandomnessFromSignature: the SHA-256 of the signature.  A digest
\* of one byte stands for it: a function of the signature alone.
RandomnessFromSignature(sig) == <<(SumBytes(sig) * 31 + 7) % 256>>

\* a SetRandomness that leaves the beacon as it is
SetRandomnessSkips(beacon) == beacon

SetRandomness(beacon) ==
    [beacon EXCEPT !.Randomness = RandomnessFromSignature(beacon.Signature)]

UnsetRandomness(beacon) == [beacon EXCEPT !.Randomness = <<>>]

\* json.Marshal of a HexBeacon: the byte fields as hex strings, the
\* omitempty fields left out when they are empty
MarshalBeacon(beacon) ==
    LET fields == { "round", "signature" }
                  \cup (IF beacon.Randomness # <<>> THEN { "randomness" } ELSE {})
                  \cup (IF beacon.PreviousSignature # <<>>
                        THEN { "previous_signature" } ELSE {})
    IN  [f \in fields |->
            CASE f = "round" -> beacon.Round
              [] f = "randomness" -> HexEncodeToString(beacon.Randomness)
              [] f = "signature" -> HexEncodeToString(beacon.Signature)
              [] f = "previous_signature" -> HexEncodeToString(beacon.PreviousSignature)]

\* init() of the main package: the flags are parsed and the frontrun
\* becomes a duration when it is positive.
init(frontrun) ==
    /\ FrontrunTiming = Nil
    /\ FrontrunTiming' = Ptr(IF frontrun > 0 THEN frontrun * Millisecond ELSE 0)
    /\ UNCHANGED <<balVars, calls, ops, knownChains, now, handlers, watch>>

\* the clock
Advance ==
    /\ now < MaxTime
    /\ now' = now + 1
    /\ UNCHANGED <<balVars, calls, ops, knownChains, FrontrunTiming, handlers, watch>>

\* r.Context() is cancelled while the request is served.
Cancel(c) ==
    /\ Serving(c)
    /\ ~handlers[c].cancelled
    /\ handlers' = [handlers EXCEPT ![c].cancelled = TRUE]
    /\ UNCHANGED <<balVars, calls, ops, knownChains, now, FrontrunTiming, watch>>

\* The by-round handler up to its call of c.GetChainInfo: the metadata and
\* the round of the request.
ServeBeacon(c, p, roundStr, isV2) ==
    /\ FrontrunTiming # Nil
    /\ ~Serving(c)
    /\ LET m == createRequestMD(p.chainhash, p.beaconID)
           round == ParseUint(roundStr)
           req == [NoRequest EXCEPT !.handler = "GetBeacon", !.isV2 = isV2, !.m = m]
       IN  handlers' = [handlers EXCEPT ![c] =
                IF m = Nil
                THEN [req EXCEPT !.resp = Response(500, Nil, "Failed to get beacon")]
                ELSE IF round = Nil
                THEN [req EXCEPT !.resp =
                         Response(400, Ptr(Immutable), "Failed to parse round")]
                ELSE [req EXCEPT !.round = Deref(round), !.pc = "info"]]
    /\ ops' = [ops EXCEPT ![c] = NoOp]
    /\ UNCHANGED <<balVars, calls, knownChains, now, FrontrunTiming, watch>>

\* c.GetChainInfo(r.Context(), m) of the by-round handler
ServeBeaconInfo(c) ==
    /\ handlers[c].handler = "GetBeacon" /\ handlers[c].pc = "info"
    /\ ops[c].op = "none"
    /\ GetChainInfo(c, RequestCtx, Deref(handlers[c].m))

ServeBeaconInfoReply(c, out) ==
    /\ handlers[c].handler = "GetBeacon" /\ handlers[c].pc = "info"
    /\ out \in RequestOutcomes(c, ChainInfoPackets, RPCErrors \cup { UnknownChainHash })
    /\ GetChainInfoReply(c, out)

Max(a, b) == IF a >= b THEN a ELSE b

\* a test that lets the round after the next one through
IsFutureOffByOne(round, nextRound) == round > nextRound + 1

\* round >= nextRound+1
IsFuture(round, nextRound) == round >= nextRound + 1

\* the argument of time.Sleep, read at clock t
SleepFor(nextTime, t) == (nextTime - Unix(t)) * Second - Deref(FrontrunTiming)

\* The by-round handler from the return of c.GetChainInfo to its call of
\* c.GetBeacon: the error reply, the reply to a future round, and the start
\* of the sleep until the next round.
ServeBeaconExpected(c) ==
    /\ handlers[c].handler = "GetBeacon" /\ handlers[c].pc = "info"
    /\ Returned(c, "GetChainInfo")
    /\ LET ret == Deref(ops[c].ret)
           h == handlers[c]
       IN  handlers' = [handlers EXCEPT ![c] =
                IF ret.err # "nil"
                THEN IF IsContextCanceled(ret.err)
                     THEN [h EXCEPT !.pc = "idle",
                                    !.resp = Response(504, Ptr(NoCaching), "timeout")]
                     ELSE IF ContainsUnknownChainHash(ret.err)
                     THEN [h EXCEPT !.pc = "idle",
                                    !.resp = Response(400, Ptr(NoCaching), "unknown chain hash")]
                     ELSE [h EXCEPT !.pc = "idle",
                                    !.resp = Response(500, Ptr(NoCaching), "Failed to get beacon")]
                ELSE LET info == Deref(ret.val)
                         next == ExpectedNext(info, now)
                         g == [h EXCEPT !.info = ret.val, !.nextTime = next.nextTime,
                                        !.nextRound = next.nextRound]
                         d == SleepFor(next.nextTime, now)
                     IN  IF IsFuture(h.round, next.nextRound)
                         THEN [g EXCEPT !.pc = "idle",
                                        !.resp = Response(425, Ptr(NoCaching),
                                                          "Requested future beacon")]
                         ELSE IF h.round = next.nextRound
                         THEN [g EXCEPT !.pc = "sleep", !.wake = now + Max(d, 0)]
                         ELSE [g EXCEPT !.pc = "beacon"]]
    /\ UNCHANGED <<balVars, calls, ops, knownChains, now, FrontrunTiming, watch>>

\* a sleep that may return at once
ServeBeaconWakeEarly(c) ==
    /\ handlers[c].handler = "GetBeacon" /\ handlers[c].pc = "sleep"
    /\ handlers' = [handlers EXCEPT ![c].pc = "beacon"]
    /\ UNCHANGED <<balVars, calls, ops, knownChains, now, FrontrunTiming, watch>>

\* time.Sleep returns, no sooner than asked.
ServeBeaconWake(c) ==
    /\ handlers[c].handler = "GetBeacon" /\ handlers[c].pc = "sleep"
    /\ now >= handlers[c].wake
    /\ handlers' = [handlers EXCEPT ![c].pc = "beacon"]
    /\ UNCHANGED <<balVars, calls, ops, knownChains, now, FrontrunTiming, watch>>

\* c.GetBeacon(r.Context(), m, round) of the by-round handler
ServeBeaconFetch(c, out) ==
    /\ handlers[c].handler = "GetBeacon" /\ handlers[c].pc = "beacon"
    /\ ops[c].op # "GetBeacon"
    /\ out \in RequestOutcomes(c, PublicRandResponses, RPCErrors)
    /\ GetBeacon(c, RequestCtx, Deref(handlers[c].m), handlers[c].round, out)

ServeBeaconFetchAgain(c, out) ==
    /\ handlers[c].handler = "GetBeacon" /\ handlers[c].pc = "beacon"
    /\ out \in RequestOutcomes(c, PublicRandResponses, RPCErrors)
    /\ GetBeaconRetry(c, out)

\* a handler that treats every beacon as the latest
BeaconCachingAsLatest(round, nextTime, t) == Revalidate(Max(nextTime - Unix(t), 0))

\* the Cache-Control of a beacon written at clock t
BeaconCaching(round, nextTime, t) ==
    IF round # 0 THEN Immutable
    ELSE Revalidate(Max(nextTime - Unix(t), 0))

\* The by-round handler from the return of c.GetBeacon: the error reply,
\* or the beacon with the caching its round allows.  json.Marshal of a
\* HexBeacon does not fail.
ServeBeaconWrite(c) ==
    /\ handlers[c].handler = "GetBeacon" /\ handlers[c].pc = "beacon"
    /\ Returned(c, "GetBeacon")
    /\ LET ret == Deref(ops[c].ret)
           h == handlers[c]
           beacon == IF h.isV2 THEN UnsetRandomness(Deref(ret.val))
                     ELSE SetRandomness(Deref(ret.val))
       IN  handlers' = [handlers EXCEPT ![c] =
                IF ret.err # "nil"
                THEN [h EXCEPT !.pc = "idle",
                               !.resp = Response(500, Ptr(NoCaching), "Failed to get beacon")]
                ELSE [h EXCEPT !.pc = "idle",
                               !.resp = Response(200,
                                   Ptr(BeaconCaching(h.round, h.nextTime, now)),
                                   MarshalBeacon(beacon))]]
    /\ UNCHANGED <<balVars, calls, ops, knownChains, now, FrontrunTiming, watch>>

Start == \E frontrun \in -1 .. MaxFrontrun : init(frontrun)

CancelRequest == \E c \in Calls : Cancel(c)

BeaconRequest == \E c \in Calls, p \in RouteParams, roundStr \in RoundParams,
                    isV2 \in BOOLEAN : ServeBeacon(c, p, roundStr, isV2)

BeaconInfo == \E c \in Calls : ServeBeaconInfo(c)

BeaconInfoReply == \E c \in Calls, out \in ChainInfoOutcomes \cup
                      { Failed(e) : e \in CanceledErrors \cup { UnknownChainHash } } :
                      ServeBeaconInfoReply(c, out)

BeaconExpected == \E c \in Calls : ServeBeaconExpected(c)

BeaconWake == \E c \in Calls : ServeBeaconWake(c)

BeaconFetch == \E c \in Calls, out \in PublicRandOutcomes \cup
                  { Failed(e) : e \in CanceledErrors } : ServeBeaconFetch(c, out)

BeaconFetchAgain == \E c \in Calls, out \in PublicRandOutcomes \cup
                       { Failed(e) : e \in CanceledErrors } : ServeBeaconFetchAgain(c, out)

BeaconWrite == \E c \in Calls : ServeBeaconWrite(c)

\* The relay serving requests for beacons by round.
NextHTTP ==
    \/ Start
    \/ Advance
    \/ CancelRequest
    \/ BeaconRequest
    \/ BeaconInfo
    \/ BeaconInfoReply
    \/ BeaconExpected
    \/ BeaconWake
    \/ BeaconFetch
    \/ BeaconFetchAgain
    \/ BeaconWrite

SpecHTTP == Init /\ [][NextHTTP]_vars

\* The latest-beacon handler up to its call of c.GetBeacon.
ServeLatest(c, p, isV2) ==
    /\ FrontrunTiming # Nil
    /\ ~Serving(c)
    /\ LET m == createRequestMD(p.chainhash, p.beaconID)
           req == [NoRequest EXCEPT !.handler = "GetLatest", !.isV2 = isV2, !.m = m]
       IN  handlers' = [handlers EXCEPT ![c] =
                IF m = Nil
                THEN [req EXCEPT !.resp = Response(500, Nil, "Failed to get latest")]
                ELSE [req EXCEPT !.pc = "beacon"]]
    /\ ops' = [ops EXCEPT ![c] = NoOp]
    /\ UNCHANGED <<balVars, calls, knownChains, now, FrontrunTiming, watch>>

\* c.GetBeacon(r.Context(), m, 0) of the latest-beacon handler
ServeLatestFetch(c, out) ==
    /\ handlers[c].handler = "GetLatest" /\ handlers[c].pc = "beacon"
    /\ ops[c].op # "GetBeacon"
    /\ out \in RequestOutcomes(c, PublicRandResponses, RPCErrors)
    /\ GetBeacon(c, RequestCtx, Deref(handlers[c].m), 0, out)

ServeLatestFetchAgain(c, out) ==
    /\ handlers[c].handler = "GetLatest" /\ handlers[c].pc = "beacon"
    /\ out \in RequestOutcomes(c, PublicRandResponses, RPCErrors)
    /\ GetBeaconRetry(c, out)

\* The latest-beacon handler from the return of c.GetBeacon: w.Write
\* without a header written before it answers 200.
ServeLatestWrite(c) ==
    /\ handlers[c].handler = "GetLatest" /\ handlers[c].pc = "beacon"
    /\ Returned(c, "GetBeacon")
    /\ LET ret == Deref(ops[c].ret)
           h == handlers[c]
           beacon == IF h.isV2 THEN UnsetRandomness(Deref(ret.val))
                     ELSE SetRandomness(Deref(ret.val))
       IN  handlers' = [handlers EXCEPT ![c] =
                IF ret.err # "nil"
                THEN [h EXCEPT !.pc = "idle",
                               !.resp = Response(500, Nil, "Failed to get beacon")]
                ELSE [h EXCEPT !.pc = "idle",
                               !.resp = Response(200, Nil, MarshalBeacon(beacon))]]
    /\ UNCHANGED <<balVars, calls, ops, knownChains, now, FrontrunTiming, watch>>

\* The chain-info handler up to its call of c.GetChainInfo.
ServeInfo(c, p) ==
    /\ FrontrunTiming # Nil
    /\ ~Serving(c)
    /\ LET m == createRequestMD(p.chainhash, p.beaconID)
           req == [NoRequest EXCEPT !.handler = "GetInfoV2", !.m = m]
       IN  handlers' = [handlers EXCEPT ![c] =
                IF m = Nil
                THEN [req EXCEPT !.resp = Response(500, Nil, "Failed to get info")]
                ELSE [req EXCEPT !.pc = "info"]]
    /\ ops' = [ops EXCEPT ![c] = NoOp]
    /\ UNCHANGED <<balVars, calls, knownChains, now, FrontrunTiming, watch>>

\* c.GetChainInfo(r.Context(), m) of the chain-info handler
ServeInfoLookup(c) ==
    /\ handlers[c].handler = "GetInfoV2" /\ handlers[c].pc = "info"
    /\ ops[c].op = "none"
    /\ GetChainInfo(c, RequestCtx, Deref(handlers[c].m))

ServeInfoReply(c, out) ==
    /\ handlers[c].handler = "GetInfoV2" /\ handlers[c].pc = "info"
    /\ out \in RequestOutcomes(c, ChainInfoPackets, RPCErrors \cup { UnknownChainHash })
    /\ GetChainInfoReply(c, out)

\* the chain-info handler from the return of c.GetChainInfo
ServeInfoWrite(c) ==
    /\ handlers[c].handler = "GetInfoV2" /\ handlers[c].pc = "info"
    /\ Returned(c, "GetChainInfo")
    /\ LET ret == Deref(ops[c].ret)
           h == handlers[c]
       IN  handlers' = [handlers EXCEPT ![c] =
                IF ret.err # "nil"
                THEN [h EXCEPT !.pc = "idle",
                               !.resp = Response(500, Nil, "Failed to get ChainInfo")]
                ELSE [h EXCEPT !.pc = "idle", !.info = ret.val,
                               !.resp = Response(200, Nil, Deref(ret.val))]]
    /\ UNCHANGED <<balVars, calls, ops, knownChains, now, FrontrunTiming, watch>>

\* The chains handler up to its call of c.GetChains.
ServeChains(c) ==
    /\ FrontrunTiming # Nil
    /\ ~Serving(c)
    /\ handlers' = [handlers EXCEPT ![c] =
            [NoRequest EXCEPT !.handler = "GetChains", !.pc = "chains"]]
    /\ ops' = [ops EXCEPT ![c] = NoOp]
    /\ UNCHANGED <<balVars, calls, knownChains, now, FrontrunTiming, watch>>

\* c.GetChains(r.Context()) of the chains handler
ServeChainsList(c, out) ==
    /\ handlers[c].handler = "GetChains" /\ handlers[c].pc = "chains"
    /\ ops[c].op = "none"
    /\ out \in RequestOutcomes(c, ListBeaconIDsResponses, RPCErrors)
    /\ GetChains(c, RequestCtx, out)

ServeChainsLoop(c) ==
    /\ handlers[c].handler = "GetChains" /\ handlers[c].pc = "chains"
    /\ GetChainsLoop(c)

ServeChainsReply(c, out) ==
    /\ handlers[c].handler = "GetChains" /\ handlers[c].pc = "chains"
    /\ out \in RequestOutcomes(c, ChainInfoPackets, RPCErrors)
    /\ GetChainsReply(c, out)

\* the chains handler from the return of c.GetChains
ServeChainsWrite(c) ==
    /\ handlers[c].handler = "GetChains" /\ handlers[c].pc = "chains"
    /\ Returned(c, "GetChains")
    /\ LET ret == Deref(ops[c].ret)
           h == handlers[c]
       IN  handlers' = [handlers EXCEPT ![c] =
                IF ret.err # "nil"
                THEN [h EXCEPT !.pc = "idle",
                               !.resp = Response(500, Nil, "Failed to get chains")]
                ELSE [h EXCEPT !.pc = "idle",
                               !.resp = Response(200, Nil, Deref(ret.val))]]
    /\ UNCHANGED <<balVars, calls, ops, knownChains, now, FrontrunTiming, watch>>

LatestRequest == \E c \in Calls, p \in RouteParams, isV2 \in BOOLEAN : ServeLatest(c, p, isV2)

LatestFetch == \E c \in Calls, out \in PublicRandOutcomes \cup
                  { Failed(e) : e \in CanceledErrors } : ServeLatestFetch(c, out)

LatestFetchAgain == \E c \in Calls, out \in PublicRandOutcomes \cup
                       { Failed(e) : e \in CanceledErrors } : ServeLatestFetchAgain(c, out)

LatestWrite == \E c \in Calls : ServeLatestWrite(c)

InfoRequest == \E c \in Calls, p \in RouteParams : ServeInfo(c, p)

InfoLookup == \E c \in Calls : ServeInfoLookup(c)

InfoReply == \E c \in Calls, out \in ChainInfoOutcomes \cup
                { Failed(e) : e \in CanceledErrors \cup { UnknownChainHash } } :
                ServeInfoReply(c, out)

InfoWrite == \E c \in Calls : ServeInfoWrite(c)

ChainsRequest == \E c \in Calls : ServeChains(c)

ChainsList == \E c \in Calls, out \in ListBeaconIDsOutcomes \cup
                 { Failed(e) : e \in CanceledErrors } : ServeChainsList(c, out)

ChainsLoop == \E c \in Calls : ServeChainsLoop(c)

ChainsReply == \E c \in Calls, out \in ChainInfoOutcomes \cup
                  { Failed(e) : e \in CanceledErrors } : ServeChainsReply(c, out)

ChainsWrite == \E c \in Calls : ServeChainsWrite(c)

\* The relay serving the latest beacon, the chain info and the chains;
\* none of these handlers reads the clock.
NextRoutes ==
    \/ Start
    \/ CancelRequest
    \/ LatestRequest
    \/ LatestFetch
    \/ LatestFetchAgain
    \/ LatestWrite
    \/ InfoRequest
    \/ InfoLookup
    \/ InfoReply
    \/ InfoWrite
    \/ ChainsRequest
    \/ ChainsList
    \/ ChainsLoop
    \/ ChainsReply
    \/ ChainsWrite

SpecRoutes == Init /\ [][NextRoutes]_vars

\* The URL parameters a handler called without the router in front of it
\* may be given: also a chain hash that is no hex string.
URLParams ==
    RouteParams \cup { [chainhash |-> <<"z", "z">>, beaconID |-> <<>>],
                       [chainhash |-> <<"a">>, beaconID |-> <<>>] }

DirectBeaconRequest == \E c \in Calls, p \in URLParams, roundStr \in RoundParams,
                          isV2 \in BOOLEAN : ServeBeacon(c, p, roundStr, isV2)

\* The by-round handler called with any URL parameters.
NextDirect ==
    \/ Start
    \/ Advance
    \/ CancelRequest
    \/ DirectBeaconRequest
    \/ BeaconInfo
    \/ BeaconInfoReply
    \/ BeaconExpected
    \/ BeaconWake
    \/ BeaconFetch
    \/ BeaconFetchAgain
    \/ BeaconWrite

SpecDirect == Init /\ [][NextDirect]_vars

\* A uint64 is held as the integer of -2^63 .. 2^63-1 it is congruent to
\* modulo 2^64: the values next to 2^64 are the negative ones, a
\* subtraction that wraps is exact, and the order is the unsigned one.
Uint64Sub(a, b) == a - b

Uint64Greater(a, b) == IF (a < 0) = (b < 0) THEN a > b ELSE a < 0

Uint64GreaterEq(a, b) == a = b \/ Uint64Greater(a, b)

\* next-2 > latest.Round
IsBehind(next, round) == Uint64Greater(Uint64Sub(next, 2), round)

\* latest.Round >= next-2
IsHealthy(next, round) == Uint64GreaterEq(round, Uint64Sub(next, 2))

\* context.WithValue(r.Context(), grpc.SkipCtxKey{}, true)
WithSkip(ctx) == [ctx EXCEPT !.skip = TRUE]

\* "no-cache"
NoCache == <<Flag("no-cache")>>

\* the chains a health request may be about: started at the clock's origin
\* or some periods before it
HealthChainInfoPackets ==
    [hash : ChainHashes, metadata : Metadatas, period : { Period },
     genesisTime : { GenesisTime - k * Period : k \in 0 .. MaxBehind }]

\* The health handler up to its first call of c.GetBeacon.
ServeHealth(c, p) ==
    /\ FrontrunTiming # Nil
    /\ ~Serving(c)
    /\ LET m == createRequestMD(p.chainhash, p.beaconID)
           req == [NoRequest EXCEPT !.handler = "GetHealth", !.m = m]
       IN  handlers' = [handlers EXCEPT ![c] =
                IF m = Nil
                THEN [req EXCEPT !.resp = Response(500, Ptr(NoCache), "Failed to get health")]
                ELSE [req EXCEPT !.pc = "latest"]]
    /\ ops' = [ops EXCEPT ![c] = NoOp]
    /\ UNCHANGED <<balVars, calls, knownChains, now, FrontrunTiming, watch>>

\* c.GetBeacon(r.Context(), m, 0) of the health handler
ServeHealthFetch(c, out) ==
    /\ handlers[c].handler = "GetHealth" /\ handlers[c].pc = "latest"
    /\ ops[c].op = "none"
    /\ out \in RequestOutcomes(c, PublicRandResponses, RPCErrors)
    /\ GetBeacon(c, RequestCtx, Deref(handlers[c].m), 0, out)

ServeHealthFetchAgain(c, out) ==
    /\ handlers[c].handler = "GetHealth" /\ handlers[c].pc = "latest"
    /\ out \in RequestOutcomes(c, PublicRandResponses, RPCErrors)
    /\ GetBeaconRetry(c, out)

\* what the handler keeps of a c.GetBeacon that returned a beacon
Fetched(c) ==
    [skip |-> Deref(ops[c].ctx).skip, Round |-> Deref(Deref(ops[c].ret).val).Round]

\* the health handler from the return of its first c.GetBeacon to its call
\* of c.GetChainInfo
ServeHealthLatest(c) ==
    /\ handlers[c].handler = "GetHealth" /\ handlers[c].pc = "latest"
    /\ Returned(c, "GetBeacon")
    /\ handlers' = [handlers EXCEPT ![c] =
            IF Deref(ops[c].ret).err # "nil"
            THEN [@ EXCEPT !.pc = "idle",
                           !.resp = Response(500, Ptr(NoCache),
                                             "Failed to get latest beacon for health")]
            ELSE [@ EXCEPT !.pc = "info", !.fetched = <<Fetched(c)>>]]
    /\ UNCHANGED <<balVars, calls, ops, knownChains, now, FrontrunTiming, watch>>

\* c.GetChainInfo(r.Context(), m) of the health handler
ServeHealthInfo(c) ==
    /\ handlers[c].handler = "GetHealth" /\ handlers[c].pc = "info"
    /\ ops[c].op = "GetBeacon"
    /\ GetChainInfo(c, RequestCtx, Deref(handlers[c].m))

ServeHealthInfoReply(c, out) ==
    /\ handlers[c].handler = "GetHealth" /\ handlers[c].pc = "info"
    /\ out \in RequestOutcomes(c, HealthChainInfoPackets, RPCErrors)
    /\ GetChainInfoReply(c, out)

\* the status and the body of a health reply
HealthReply(next, round) ==
    Response(IF IsHealthy(next, round) THEN 200 ELSE 503, Ptr(NoCache),
             [current |-> round, expected |-> Uint64Sub(next, 1)])

\* The health handler from the return of c.GetChainInfo: the reply, or the
\* second fetch when the latest beacon is behind.
ServeHealthExpected(c) ==
    /\ handlers[c].handler = "GetHealth" /\ handlers[c].pc = "info"
    /\ Returned(c, "GetChainInfo")
    /\ LET ret == Deref(ops[c].ret)
           h == handlers[c]
       IN  handlers' = [handlers EXCEPT ![c] =
                IF ret.err # "nil"
                THEN [h EXCEPT !.pc = "idle",
                               !.resp = Response(500, Ptr(NoCache),
                                                 "Failed to get chain info for health")]
                ELSE LET next == ExpectedNext(Deref(ret.val), now)
                         g == [h EXCEPT !.info = ret.val, !.nextTime = next.nextTime,
                                        !.nextRound = next.nextRound]
                     IN  IF IsBehind(next.nextRound, h.fetched[1].Round)
                         THEN [g EXCEPT !.pc = "retry"]
                         ELSE [g EXCEPT !.pc = "idle",
                                        !.resp = HealthReply(next.nextRound,
                                                             h.fetched[1].Round)]]
    /\ UNCHANGED <<balVars, calls, ops, knownChains, now, FrontrunTiming, watch>>

\* c.GetBeacon(ctx, m, 0) of the health handler, ctx carrying SkipCtxKey
ServeHealthRetry(c, out) ==
    /\ handlers[c].handler = "GetHealth" /\ handlers[c].pc = "retry"
    /\ ops[c].op = "GetChainInfo"
    /\ out \in RequestOutcomes(c, PublicRandResponses, RPCErrors)
    /\ GetBeacon(c, WithSkip(RequestCtx), Deref(handlers[c].m), 0, out)

ServeHealthRetryAgain(c, out) ==
    /\ handlers[c].handler = "GetHealth" /\ handlers[c].pc = "retry"
    /\ out \in RequestOutcomes(c, PublicRandResponses, RPCErrors)
    /\ GetBeaconRetry(c, out)

\* the health handler from the return of its second c.GetBeacon
ServeHealthWrite(c) ==
    /\ handlers[c].handler = "GetHealth" /\ handlers[c].pc = "retry"
    /\ Returned(c, "GetBeacon")
    /\ handlers' = [handlers EXCEPT ![c] =
            IF Deref(ops[c].ret).err # "nil"
            THEN [@ EXCEPT !.pc = "idle",
                           !.resp = Response(500, Ptr(NoCache),
                                             "Failed to get latest beacon for health")]
            ELSE [@ EXCEPT !.pc = "idle", !.fetched = Append(@, Fetched(c)),
                           !.resp = HealthReply(handlers[c].nextRound, Fetched(c).Round)]]
    /\ UNCHANGED <<balVars, calls, ops, knownChains, now, FrontrunTiming, watch>>

HealthRequest == \E c \in Calls, p \in RouteParams : ServeHealth(c, p)

HealthFetch == \E c \in Calls, out \in PublicRandOutcomes \cup
                  { Failed(e) : e \in CanceledErrors } : ServeHealthFetch(c, out)

HealthFetchAgain == \E c \in Calls, out \in PublicRandOutcomes \cup
                       { Failed(e) : e \in CanceledErrors } : ServeHealthFetchAgain(c, out)

HealthLatest == \E c \in Calls : ServeHealthLatest(c)

HealthInfo == \E c \in Calls : ServeHealthInfo(c)

HealthInfoReply == \E c \in Calls,
                      out \in { Ok(r) : r \in HealthChainInfoPackets } \cup
                              { Failed(e) : e \in RPCErrors \cup CanceledErrors } :
                      ServeHealthInfoReply(c, out)

HealthExpected == \E c \in Calls : ServeHealthExpected(c)

HealthRetry == \E c \in Calls, out \in PublicRandOutcomes \cup
                  { Failed(e) : e \in CanceledErrors } : ServeHealthRetry(c, out)

HealthRetryAgain == \E c \in Calls, out \in PublicRandOutcomes \cup
                       { Failed(e) : e \in CanceledErrors } : ServeHealthRetryAgain(c, out)

HealthWrite == \E c \in Calls : ServeHealthWrite(c)

\* The relay serving health requests; the handler reads the clock once.
NextHealth ==
    \/ Start
    \/ CancelRequest
    \/ HealthRequest
    \/ HealthFetch
    \/ HealthFetchAgain
    \/ HealthLatest
    \/ HealthInfo
    \/ HealthInfoReply
    \/ HealthExpected
    \/ HealthRetry
    \/ HealthRetryAgain
    \/ HealthWrite

SpecHealth == Init /\ [][NextHealth]_vars

\* Client.Next up to its return: the beacon of the next round once a
\* backend has sent it, or the error of the RPC.
ClientNext(c, ctx, m, out) ==
    /\ Idle(c)
    /\ LET in == [Metadata |-> m]
           op == [NoOp EXCEPT !.op = "Next", !.ctx = Ptr(ctx), !.in = Ptr(in),
                              !.log = <<Attempt("PublicRand", ctx, in, out)>>]
       IN  ops' = [ops EXCEPT ![c] =
                IF out.err # "nil"
                THEN [op EXCEPT !.ret = Return(out.err, Nil)]
                ELSE [op EXCEPT !.ret = Return("nil", Ptr(NewHexBeacon(Deref(out.resp))))]]
    /\ UNCHANGED <<balVars, calls, knownChains, web>>

\* The next-beacon handler up to its call of c.Next.
ServeNext(c, p) ==
    /\ FrontrunTiming # Nil
    /\ ~Serving(c)
    /\ LET m == createRequestMD(p.chainhash, p.beaconID)
           req == [NoRequest EXCEPT !.handler = "GetNext", !.isV2 = TRUE, !.m = m]
       IN  handlers' = [handlers EXCEPT ![c] =
                IF m = Nil
                THEN [req EXCEPT !.resp = Response(500, Nil, "Failed to get latest")]
                ELSE [req EXCEPT !.pc = "beacon"]]
    /\ ops' = [ops EXCEPT ![c] = NoOp]
    /\ UNCHANGED <<balVars, calls, knownChains, now, FrontrunTiming, watch>>

\* c.Next(r.Context(), m) of the next-beacon handler
ServeNextFetch(c, out) ==
    /\ handlers[c].handler = "GetNext" /\ handlers[c].pc = "beacon"
    /\ ops[c].op = "none"
    /\ out \in RequestOutcomes(c, PublicRandResponses, RPCErrors)
    /\ ClientNext(c, RequestCtx, Deref(handlers[c].m), out)

\* the next-beacon handler from the return of c.Next
ServeNextWrite(c) ==
    /\ handlers[c].handler = "GetNext" /\ handlers[c].pc = "beacon"
    /\ Returned(c, "Next")
    /\ LET ret == Deref(ops[c].ret)
           h == handlers[c]
       IN  handlers' = [handlers EXCEPT ![c] =
                IF ret.err # "nil"
                THEN [h EXCEPT !.pc = "idle",
                               !.resp = Response(500, Nil, "Failed to get beacon")]
                ELSE [h EXCEPT !.pc = "idle",
                               !.resp = Response(200, Nil, MarshalBeacon(Deref(ret.val)))]]
    /\ UNCHANGED <<balVars, calls, ops, knownChains, now, FrontrunTiming, watch>>

NextRequest == \E c \in Calls, p \in RouteParams : ServeNext(c, p)

NextFetch == \E c \in Calls, out \in PublicRandOutcomes : ServeNextFetch(c, out)

NextWrite == \E c \in Calls : ServeNextWrite(c)

\* c.GetChainInfo of the by-round handler, for a chain that may have
\* started some periods ago
ServeBeaconOldInfoReply(c, out) ==
    /\ handlers[c].handler = "GetBeacon" /\ handlers[c].pc = "info"
    /\ out \in RequestOutcomes(c, HealthChainInfoPackets, RPCErrors)
    /\ GetChainInfoReply(c, out)

LatestByRoundRequest == \E c \in Calls, p \in RouteParams, isV2 \in BOOLEAN :
                           ServeBeacon(c, p, <<"0">>, isV2)

BeaconOldInfoReply == \E c \in Calls,
                         out \in { Ok(r) : r \in HealthChainInfoPackets } \cup
                                 { Failed(e) : e \in RPCErrors } :
                         ServeBeaconOldInfoReply(c, out)

\* The relay serving the latest beacon, by round 0 and from the latest
\* endpoints, and the next one, of chains of several ages.
NextLatest ==
    \/ Start
    \/ LatestByRoundRequest
    \/ BeaconInfo
    \/ BeaconOldInfoReply
    \/ BeaconExpected
    \/ BeaconFetch
    \/ BeaconFetchAgain
    \/ BeaconWrite
    \/ LatestRequest
    \/ LatestFetch
    \/ LatestFetchAgain
    \/ LatestWrite
    \/ NextRequest
    \/ NextFetch
    \/ NextWrite

SpecLatest == Init /\ [][NextLatest]_vars

\* ------------------------------------------------------------------- watch
\* make(chan *HexBeacon, 1)
ChanCap == 1

\* Watch up to its return: PublicRandStream opens the stream and the
\* goroutine starts, or it fails and Watch closes ch and returns nil.
Watch(c, opened) ==
    /\ watch[c].pc = "idle"
    /\ watch' = [watch EXCEPT ![c] =
            IF opened
            THEN [NoWatch EXCEPT !.pc = "recv", !.ret = "ch"]
            ELSE [NoWatch EXCEPT !.pc = "done", !.closed = TRUE, !.ret = "nil"]]
    /\ UNCHANGED <<balVars, calls, ops, knownChains, now, FrontrunTiming, handlers>>

\* the context passed to Watch is cancelled; the stream's context is
\* derived from it
WatchCancel(c) ==
    /\ watch[c].pc # "idle"
    /\ ~watch[c].cancelled
    /\ watch' = [watch EXCEPT ![c].cancelled = TRUE]
    /\ UNCHANGED <<balVars, calls, ops, knownChains, now, FrontrunTiming, handlers>>

\* stream.Recv() returns and the switch is taken: an error or a finished
\* context ends the goroutine, whose deferred close(ch) runs; otherwise
\* the goroutine goes on to send the beacon.
WatchRecv(c, out) ==
    /\ watch[c].pc = "recv"
    /\ out.err = "nil" => watch[c].recvd < MaxStream
    /\ watch' = [watch EXCEPT ![c] =
            IF out.err # "nil" \/ watch[c].cancelled
            THEN [@ EXCEPT !.pc = "done", !.closed = TRUE, !.next = Nil]
            ELSE [@ EXCEPT !.pc = "send", !.recvd = @ + 1,
                           !.next = Ptr(NewHexBeacon(Deref(out.resp)))]]
    /\ UNCHANGED <<balVars, calls, ops, knownChains, now, FrontrunTiming, handlers>>

\* "ch <- NewHexBeacon(next)": the send goes through once the buffer has
\* room.
WatchSend(c) ==
    /\ watch[c].pc = "send"
    /\ Len(watch[c].ch) < ChanCap
    /\ watch' = [watch EXCEPT ![c].ch = Append(@, Deref(watch[c].next)),
                              ![c].next = Nil, ![c].pc = "recv"]
    /\ UNCHANGED <<balVars, calls, ops, knownChains, now, FrontrunTiming, handlers>>

\* the caller of Watch receives from the channel
WatchConsume(c) ==
    /\ watch[c].ret = "ch"
    /\ watch[c].ch # <<>>
    /\ watch' = [watch EXCEPT ![c].ch = Tail(@)]
    /\ UNCHANGED <<balVars, calls, ops, knownChains, now, FrontrunTiming, handlers>>

\* The caller of Watch receives from the channel Watch returned once it is
\* closed and empty: the receive reports the end.  A receive from the nil
\* channel blocks for ever.
WatchEnd(c) ==
    /\ watch[c].ret = "ch"
    /\ watch[c].ch = <<>> /\ watch[c].closed
    /\ ~watch[c].ended
    /\ watch' = [watch EXCEPT ![c].ended = TRUE]
    /\ UNCHANGED <<balVars, calls, ops, knownChains, now, FrontrunTiming, handlers>>

OpenStream == \E c \in Calls, opened \in BOOLEAN : Watch(c, opened)

CancelWatch == \E c \in Calls : WatchCancel(c)

StreamRecv == \E c \in Calls, out \in PublicRandOutcomes : WatchRecv(c, out)

ChanSend == \E c \in Calls : WatchSend(c)

Consume == \E c \in Calls : WatchConsume(c)

ObserveEnd == \E c \in Calls : WatchEnd(c)

NextWatch ==
    \/ OpenStream
    \/ CancelWatch
    \/ StreamRecv
    \/ ChanSend
    \/ Consume
    \/ ObserveEnd

\* The goroutine of Watch is scheduled: a Recv that can return does, the
\* stream ending at the latest when its context is cancelled, and a send
\* that can go through does.  Nothing makes the caller receive.
SpecWatch == Init /\ [][NextWatch]_vars /\ WF_vars(StreamRecv) /\ WF_vars(ChanSend)

\* The same with a caller that keeps receiving until the channel reports
\* its end: "for b := range ch".
SpecWatchRead ==
    /\ Init /\ [][NextWatch]_vars
    /\ WF_vars(StreamRecv) /\ WF_vars(ChanSend)
    /\ WF_vars(Consume) /\ WF_vars(ObserveEnd)

\* ---------------------------------------------------- ExpectedNext alone
\* The chain infos ExpectedNext is read on: periods of 1 second and more,
\* genesis times at, before and after the clock.
MaxPeriod == 3
MaxGenesis == 4

ExpectedInfos ==
    { NewInfoV2(resp) :
        resp \in [hash : { <<>> }, metadata : { [chainHash |-> <<>>, beaconID |-> DefaultBeaconID] },
                  period : 1 .. MaxPeriod, genesisTime : 0 .. MaxGenesis] }

\* "nextTime, nextRound := info.ExpectedNext()" on a chain info, the clock
\* read by time.Now() inside it
ReadExpectedNext(c, info) ==
    /\ handlers[c].handler \in {"none", "ExpectedNext"}
    /\ LET next == ExpectedNext(info, now)
       IN  handlers' = [handlers EXCEPT ![c] =
               [NoRequest EXCEPT !.handler = "ExpectedNext", !.info = Ptr(info),
                                 !.nextTime = next.nextTime,
                                 !.nextRound = next.nextRound]]
    /\ UNCHANGED <<balVars, calls, ops, knownChains, now, FrontrunTiming, watch>>

ReadExpected == \E c \in Calls, info \in ExpectedInfos : ReadExpectedNext(c, info)

NextExpected ==
    \/ Advance
    \/ ReadExpected

SpecExpected == Init /\ [][NextExpected]_vars

\* ---------------------------------------------------------- HexBytes
\* A JSON document is the value it holds: a string, null, a number, or
\* bytes that are no JSON at all.
JSONString(str) == [kind |-> "string", str |-> str]
JSONNull == [kind |-> "null", str |-> <<>>]
JSONNumber == [kind |-> "number", str |-> <<>>]
JSONInvalid == [kind |-> "invalid", str |-> <<>>]

\* (h *HexBytes) String()
HexBytesString(h) == HexEncodeToString(h)

\* (h *HexBytes) MarshalJSON(): json.Marshal of a string of hex digits
\* writes it between quotes
MarshalJSON(h) == JSONString(HexBytesString(h))

\* "var hexString string; json.Unmarshal(data, &hexString)": a JSON string
\* is stored; null has no effect on a string and is no error; any other
\* value, and bytes that are no JSON, are an error (nil here).
UnmarshalString(data) ==
    CASE data.kind = "string" -> Ptr(data.str)
      [] data.kind = "null" -> Ptr(<<>>)
      [] OTHER -> Nil

\* (h *HexBytes) UnmarshalJSON(data): the value of *h afterwards and the
\* error returned
UnmarshalJSON(h, data) ==
    LET hexString == UnmarshalString(data)
    IN  IF hexString = Nil THEN [h |-> h, err |-> "json"]
        ELSE LET b == HexDecodeString(Deref(hexString))
             IN  IF b = Nil THEN [h |-> h, err |-> "hex"]
                 ELSE [h |-> Deref(b), err |-> "nil"]

MaxBytes == 1
MaxHex == 2

\* the values a HexBytes holds before a call
HexBytesValues == SeqsUpTo({0, 171}, MaxBytes)

\* the documents handed to UnmarshalJSON: strings of digits in both cases
\* and of a character that is no digit, and documents that are no string
JSONInputs ==
    { JSONString(str) : str \in SeqsUpTo({"0", "a", "b", "A", "B", "g"}, MaxHex) }
        \cup { JSONNull, JSONNumber, JSONInvalid }

HexBytesCall(c, entry) ==
    [NoOp EXCEPT !.op = "HexBytes", !.log = Append(ops[c].log, entry)]

\* h.MarshalJSON() on a value h
CallMarshalJSON(c, h) ==
    /\ ops[c].op \in {"none", "HexBytes"}
    /\ ops' = [ops EXCEPT ![c] =
            [NoOp EXCEPT !.op = "HexBytes",
                         !.log = <<[call |-> "MarshalJSON", h |-> h,
                                    data |-> MarshalJSON(h), after |-> h,
                                    err |-> "nil"]>>]]
    /\ UNCHANGED <<balVars, calls, knownChains, web>>

\* h.UnmarshalJSON(data) on a target holding h
CallUnmarshalJSON(c, h, data) ==
    /\ ops[c].op \in {"none", "HexBytes"}
    /\ LET r == UnmarshalJSON(h, data)
       IN  ops' = [ops EXCEPT ![c] =
               [NoOp EXCEPT !.op = "HexBytes",
                            !.log = <<[call |-> "UnmarshalJSON", h |-> h,
                                       data |-> data, after |-> r.h,
                                       err |-> r.err]>>]]
    /\ UNCHANGED <<balVars, calls, knownChains, web>>

\* the document MarshalJSON returned is handed to UnmarshalJSON on a
\* target holding h
UnmarshalMarshalled(c, h) ==
    /\ ops[c].op = "HexBytes" /\ Len(ops[c].log) = 1
    /\ ops[c].log[1].call = "MarshalJSON"
    /\ LET data == ops[c].log[1].data
           r == UnmarshalJSON(h, data)
       IN  ops' = [ops EXCEPT ![c] = HexBytesCall(c,
               [call |-> "UnmarshalJSON", h |-> h, data |-> data,
                after |-> r.h, err |-> r.err])]
    /\ UNCHANGED <<balVars, calls, knownChains, web>>

\* the value UnmarshalJSON stored is marshalled
MarshalUnmarshalled(c) ==
    /\ ops[c].op = "HexBytes" /\ Len(ops[c].log) = 1
    /\ ops[c].log[1].call = "UnmarshalJSON" /\ ops[c].log[1].err = "nil"
    /\ LET h == ops[c].log[1].after
       IN  ops' = [ops EXCEPT ![c] = HexBytesCall(c,
               [call |-> "MarshalJSON", h |-> h, data |-> MarshalJSON(h),
                after |-> h, err |-> "nil"])]
    /\ UNCHANGED <<balVars, calls, knownChains, web>>

Encode == \E c \in Calls, h \in HexBytesValues : CallMarshalJSON(c, h)

Decode ==
    \E c \in Calls, h \in HexBytesValues, data \in JSONInputs :
        CallUnmarshalJSON(c, h, data)

EncodeDecode == \E c \in Calls, h \in HexBytesValues : UnmarshalMarshalled(c, h)

DecodeEncode == \E c \in Calls : MarshalUnmarshalled(c)

NextHexBytes ==
    \/ Encode
    \/ Decode
    \/ EncodeDecode
    \/ DecodeEncode

SpecHexBytes == Init /\ [][NextHexBytes]_vars

\* ---------------------------------------------------------- insert alone
\* A slice built by insert alone, as the tests of the balancer build it:
\* "scs := make([]*scWithAddr, n, 100)" holds n nil slots, and every call
\* "scs = insert(scs, sca)" stores what insert returned.
MaxNils == 2
MaxInserts == 3
MaxPriority == 1

\* the entries handed to insert: the k-th call brings a new scWithAddr (k
\* stands for its address) or nil
InsertedScas(k) ==
    { Nil } \cup { Ptr(s) : s \in [sc : { k }, priority : -MaxPriority .. MaxPriority,
                                    order : 0 .. 1] }

\* make([]*scWithAddr, n, 100)
MakeSlots(c, n) ==
    /\ ops[c].op = "none"
    /\ ops' = [ops EXCEPT ![c] =
            [NoOp EXCEPT !.op = "insert", !.in = Ptr(n),
                         !.ret = Ptr([i \in 1 .. n |-> Nil])]]
    /\ UNCHANGED <<balVars, calls, knownChains, web>>

\* scs = insert(scs, s)
InsertSca(c, s) ==
    /\ ops[c].op = "insert"
    /\ Len(ops[c].log) < MaxInserts
    /\ ops' = [ops EXCEPT ![c].ret = Ptr(insert(Deref(ops[c].ret), s)),
                          ![c].log = Append(@, s)]
    /\ UNCHANGED <<balVars, calls, knownChains, web>>

MakeSlice == \E c \in Calls, n \in 0 .. MaxNils : MakeSlots(c, n)

InsertNext ==
    \E c \in Calls :
        \E s \in InsertedScas(Len(ops[c].log) + 1) : InsertSca(c, s)

NextInsert ==
    \/ MakeSlice
    \/ InsertNext

SpecInsert == Init /\ [][NextInsert]_vars

\* ------------------------------------------------------ FallbackResolver
\* strings.Split(str, ","): the pieces between the commas, the empty
\* string giving one empty piece
RECURSIVE SplitLoop(_, _, _)
SplitLoop(str, piece, k) ==
    IF k > Len(str) THEN <<piece>>
    ELSE IF str[k] = "," THEN <<piece>> \o SplitLoop(str, <<>>, k + 1)
    ELSE SplitLoop(str, Append(piece, str[k]), k + 1)

Split(str) == SplitLoop(str, <<>>, 1)

\* resolver.Address{Addr: a, ServerName: a}: no Attributes
ResolverAddress(a) == [Addr |-> a, ServerName |-> a, Attributes |-> Nil]

\* addr.Address.Attributes.Value(key): nil on nil Attributes and on a key
\* that is not set
AttributesValue(addr, key) ==
    IF addr.Attributes = Nil THEN Nil
    ELSE IF key \in DOMAIN Deref(addr.Attributes)
    THEN Ptr(Deref(addr.Attributes)[key])
    ELSE Nil

\* the addresses start() hands to cc.UpdateState
StartAddresses(endpoint) ==
    LET addrStrs == Split(endpoint)
    IN  [i \in 1 .. Len(addrStrs) |-> ResolverAddress(addrStrs[i])]

\* the endpoints of the dial target: host names of one letter, separated
\* by commas
MaxEndpoint == 5

Endpoints == SeqsUpTo({"a", "b", ","}, MaxEndpoint)

\* FallbackResolver.Build -> start(), once per dial
start(endpoint) ==
    /\ resolved = Nil
    /\ resolved' = Ptr(StartAddresses(endpoint))
    /\ UNCHANGED <<scAddrs, picker, closed, shutdown, ccsErr, calls, ops,
                   knownChains, web>>

\* The channel makes SubConn i for the i-th address of the resolver
\* state, and Build sees in info.ReadySCs the SubConns that are READY,
\* each with its address.  "order, ok := ...Value("order").(int)" fails
\* on an address that has no such attribute.
ResolvedBuild(ready) ==
    /\ resolved # Nil
    /\ \A sc \in ready : sc + 1 <= Len(Deref(resolved))
    /\ Build(ready, \A sc \in ready :
                       AttributesValue(Deref(resolved)[sc + 1], "order") # Nil)

Resolve == \E endpoint \in Endpoints : start(endpoint)

ResolvedReconcile == \E ready \in SUBSET SubConns : ResolvedBuild(ready)

\* The dial, the reconciliations that follow it, and the picks.
NextResolver ==
    \/ Resolve
    \/ ResolvedReconcile
    \/ InvokeRPC
    \/ SecondLookup

SpecResolver == Init /\ [][NextResolver]_vars

\* ------------------------------------------------- NewHexBeacon alone
\* The beacons handed to NewHexBeacon: a nil *proto.PublicRandResponse, and
\* responses whose byte fields are empty or not.
WeirdBeacons ==
    { Nil } \cup
    { Ptr(r) : r \in [round : 0 .. MaxRound + 1, signature : HexBytesValues,
                      previous_signature : HexBytesValues,
                      randomness : HexBytesValues] }

\* The getters of a *proto.PublicRandResponse: on a nil receiver they
\* return the zero values.
RandomData(b) ==
    IF b = Nil
    THEN [round |-> 0, signature |-> <<>>, previous_signature |-> <<>>,
          randomness |-> <<>>]
    ELSE Deref(b)

\* json.Marshal(NewHexBeacon(b))
EncodeBeacon(c, b) ==
    /\ ops[c].op \in {"none", "NewHexBeacon"}
    /\ ops' = [ops EXCEPT ![c] =
            [NoOp EXCEPT !.op = "NewHexBeacon", !.in = Ptr(b),
                         !.ret = Ptr(MarshalBeacon(NewHexBeacon(RandomData(b))))]]
    /\ UNCHANGED <<balVars, calls, knownChains, web>>

Encoding == \E c \in Calls, b \in WeirdBeacons : EncodeBeacon(c, b)

NextEncode == Encoding

SpecEncode == Init /\ [][NextEncode]_vars

\* ---------------------------------------------------------------- claims
Priority(sc) == scAddrs[sc].priority

\* the entries holding the smallest priority value of the map
Smallest(m) == { sc \in DOMAIN m : \A x \in DOMAIN m : m[sc].priority <= m[x].priority }

\* C1: in a pool of at least two entries, once the Done callback of a pick
\* of the preferred entry (picked without skip_first) has run with an error,
\* a Pick without skip_first no longer returns that entry.
C1_FailedPreferredIsAvoided ==
    [][\A c \in Calls :
         ( /\ Done(c, TRUE)
           /\ ~calls[c].skip
           /\ Cardinality(DOMAIN scAddrs) >= 2
           /\ calls[c].picked \in firstResults(scAddrs) )
         => calls[c].picked \notin firstResults(scAddrs')]_vars

\* C2: a Pick without skip_first returns an entry of the map whose priority
\* value is the smallest of the map; on an empty map Pick fails with
\* ErrNoSubConnAvailable, with skip_first (both lookups find it empty) or
\* without.
C2_PickReturnsSmallest ==
    [][\A c \in Calls :
         /\ (PickFirst(c, FALSE) /\ picker = "fb" /\ scAddrs # << >>)
            => /\ calls'[c].pc = "rpc"
               /\ calls'[c].res = "ok"
               /\ Deref(calls'[c].picked) \in Smallest(scAddrs)
         /\ (PickFirst(c, FALSE) /\ scAddrs = << >>)
            => calls'[c] = PickFailed
         /\ (PickSecond(c) /\ calls[c].picked = Nil /\ scAddrs = << >>)
            => calls'[c] = PickFailed]_vars

C2_Witness ==
    \E c \in Calls :
      /\ calls[c].pc = "rpc"
      /\ ~calls[c].skip
      /\ Cardinality(DOMAIN scAddrs) >= 2
      /\ Deref(calls[c].picked) \in Smallest(scAddrs)
      /\ \E sc \in DOMAIN scAddrs : Priority(sc) # scAddrs[sc].order

\* C3: a Pick carrying skip_first that finds at least two entries never
\* returns the entry it found first while that entry holds the smallest
\* priority value of the map at the moment the pick is decided (the second
\* lookup).
C3_SkipFirstAvoidsFirst ==
    [][\A c \in Calls :
         (PickSecond(c) /\ Cardinality(DOMAIN scAddrs) >= 2)
         => ~ ( /\ calls'[c].second = calls[c].picked
                /\ Deref(calls'[c].second) \in Smallest(scAddrs) )]_vars

\* C4: every tick sets priority = order for every entry of the map; and if
\* from some point on no Done callback reports an error and no skip_first
\* pick demotes, then from some point on every entry has priority = order
\* and first() returns the entry of the map with the smallest order.
Restored == \A sc \in DOMAIN scAddrs : Priority(sc) = scAddrs[sc].order

SmallestOrder(m) ==
    { sc \in DOMAIN m : \A x \in DOMAIN m : m[sc].order <= m[x].order }

PicksSmallestOrder ==
    scAddrs # << >>
    => firstResults(scAddrs) = { Ptr(sc) : sc \in SmallestOrder(scAddrs) }

Demoting == \E c \in Calls : Done(c, TRUE) \/ PickDec(c)

C4_TickerRestores ==
    /\ [][Tick => /\ DOMAIN scAddrs' = DOMAIN scAddrs
                  /\ \A sc \in DOMAIN scAddrs' :
                       /\ scAddrs'[sc].priority = scAddrs[sc].order
                       /\ scAddrs'[sc].order = scAddrs[sc].order]_vars
    /\ (<>[][~Demoting]_vars) => <>[](Restored /\ PicksSmallestOrder)

C4_Witness ==
    \E c \in Calls :
      /\ calls[c].pc = "rpc"
      /\ ~calls[c].skip
      /\ Restored
      /\ Cardinality(DOMAIN scAddrs) >= 2
      /\ Deref(calls[c].picked) \in DOMAIN scAddrs
      /\ Deref(calls[c].picked) \notin SmallestOrder(scAddrs)

\* C5: after a reconciliation whose READY addresses all carry the order
\* attribute, the map holds exactly the SubConns reported READY, the empty
\* report included.
C5_MapIsReadySet ==
    [][\A ready \in SUBSET SubConns :
         Build(ready, TRUE) => DOMAIN scAddrs' = ready]_vars

AfterZeroAddresses == ccsErr = "ErrBadResolverState" /\ scAddrs = << >>

C7_ZeroAddressesEmptyThePool ==
    /\ [][UpdateClientConnState(TRUE)
            => /\ scAddrs' = << >>
               /\ DOMAIN scAddrs \subseteq shutdown'
               /\ ccsErr' = "ErrBadResolverState"]_vars
    /\ [][\A c \in Calls :
            /\ ( /\ AfterZeroAddresses
                 /\ PickFirst(c, FALSE) )
               => calls'[c] = PickFailed
            /\ ( /\ AfterZeroAddresses
                 /\ calls[c].picked = Nil
                 /\ PickSecond(c) )
               => calls'[c] = PickFailed]_vars

C7_Witness ==
    /\ AfterZeroAddresses
    /\ picker = "fb"
    /\ shutdown # {}
    /\ \E c \in Calls : calls[c] = PickFailed

\* C8 as stated: Done with an error lowers the priority of the picked entry
\* by 2 and changes nothing else; Done without error changes nothing.
C8_DoneDemotesPicked ==
    [][\A c \in Calls :
         /\ Done(c, TRUE)
            => LET sc == Deref(calls[c].picked)
               IN  /\ sc \in DOMAIN scAddrs
                   /\ scAddrs' = [scAddrs EXCEPT ![sc].priority = @ - 2]
         /\ Done(c, FALSE) => scAddrs' = scAddrs]_vars

\* C8 amended: Done with an error lowers by 2 the priority of the entry the
\* map holds for the picked SubConn and changes nothing else; when the map
\* holds no entry for it any more, and when there is no error, Done changes
\* nothing.
C8_DoneDemotesPickedIfPresent ==
    [][\A c \in Calls :
         /\ Done(c, TRUE)
            => LET sc == Deref(calls[c].picked)
               IN  IF sc \in DOMAIN scAddrs
                   THEN scAddrs' = [scAddrs EXCEPT ![sc].priority = @ - 2]
                   ELSE scAddrs' = scAddrs
         /\ Done(c, FALSE) => scAddrs' = scAddrs
         /\ (Done(c, TRUE) \/ Done(c, FALSE))
            => UNCHANGED <<picker, closed, shutdown, ccsErr>>]_vars

C8_Witness ==
    /\ \A c \in Calls : calls[c].pc = "idle"
    /\ \E a, b \in DOMAIN scAddrs :
         /\ Priority(a) = scAddrs[a].order - 2
         /\ Priority(b) = scAddrs[b].order

\* the attempts of a log that failed
FailedAttempts(log) == { i \in 1 .. Len(log) : log[i].out.err # "nil" }

\* the first successful attempt of a log that has one
FirstOk(log) ==
    CHOOSE i \in 1 .. Len(log) :
        /\ log[i].out.err = "nil"
        /\ \A j \in 1 .. (i - 1) : log[j].out.err # "nil"

\* C9: GetBeacon issues one PublicRand and exactly one more iff the first
\* failed, both with the context and request it received (the deadline is
\* not reset); it returns an error iff both attempts failed and otherwise
\* the envelope of the first successful attempt; a call never issues more
\* than two PublicRand RPCs.
C9_GetBeaconRetriesOnce ==
    \A c \in Calls :
        ops[c].op = "GetBeacon" =>
            LET log == ops[c].log
                ctx == Deref(ops[c].ctx)
            IN  /\ Len(log) \in 1 .. 2
                /\ \A i \in 1 .. Len(log) :
                       /\ log[i].rpc = "PublicRand"
                       /\ log[i].ctx = ctx
                       /\ log[i].in = Deref(ops[c].in)
                /\ Len(log) = 2 => log[1].out.err # "nil"
                /\ ops[c].ret = Nil => (Len(log) = 1 /\ log[1].out.err # "nil")
                /\ ops[c].ret # Nil =>
                       LET r == Deref(ops[c].ret)
                       IN  /\ log[1].out.err # "nil" => Len(log) = 2
                           /\ r.err # "nil" <=> FailedAttempts(log) = 1 .. Len(log)
                           /\ r.err # "nil" => r.err = log[Len(log)].out.err /\ r.val = Nil
                           /\ r.err = "nil" =>
                                  r.val = Ptr(NewHexBeacon(
                                              Deref(log[FirstOk(log)].out.resp)))

\* a GetBeacon that failed once and returned the envelope of its retry
C9_Witness ==
    \E c \in Calls :
        /\ ops[c].op = "GetBeacon"
        /\ ops[c].ret # Nil
        /\ Len(ops[c].log) = 2
        /\ ops[c].log[1].out.err # "nil"
        /\ ops[c].log[2].out.err = "nil"
        /\ Deref(ops[c].ret).err = "nil"
        /\ Deref(Deref(ops[c].ret).val).Round = Deref(ops[c].log[2].out.resp).round

ChainOps == { "GetChainInfo", "GetChains" }

\* C10 as stated: a failed ChainInfo RPC of GetChainInfo and a failed
\* ListBeaconIDs or ChainInfo RPC of GetChains is retried exactly once
\* before its error is surfaced: an RPC error is returned only after two
\* failed attempts of the same RPC in a row.
C10_ChainRPCsRetriedOnce ==
    \A c \in Calls :
        (/\ ops[c].op \in ChainOps
         /\ ops[c].ret # Nil
         /\ Deref(ops[c].ret).err \in RPCErrors) =>
            LET log == ops[c].log
                n == Len(log)
            IN  /\ n >= 2
                /\ log[n].rpc = log[n - 1].rpc
                /\ log[n].out.err # "nil"
                /\ log[n - 1].out.err # "nil"

\* C10, amended: a failed ChainInfo RPC of GetChainInfo and a failed
\* ListBeaconIDs or ChainInfo RPC of GetChains is not retried: the failed
\* attempt is the last RPC of the call and its error is what the call
\* returns.  GetChainInfo issues at most one ChainInfo RPC; GetChains
\* issues exactly one ListBeaconIDs RPC, first, and at most one ChainInfo
\* RPC for each listed metadata.
C10_ChainRPCsNotRetried ==
    \A c \in Calls :
        ops[c].op \in ChainOps =>
            LET log == ops[c].log
            IN  /\ \A i \in FailedAttempts(log) :
                       /\ i = Len(log)
                       /\ ops[c].ret = Return(log[i].out.err, Nil)
                /\ ops[c].op = "GetChainInfo" =>
                       /\ Len(log) <= 1
                       /\ \A i \in 1 .. Len(log) : log[i].rpc = "ChainInfo"
                /\ ops[c].op = "GetChains" =>
                       /\ Len(log) >= 1
                       /\ log[1].rpc = "ListBeaconIDs"
                       /\ \A i \in 2 .. Len(log) : log[i].rpc = "ChainInfo"
                       /\ log[1].out.err = "nil" =>
                              Len(log) <= 1 + Len(Deref(log[1].out.resp).metadatas)

\* a GetChains whose ChainInfo RPC failed after a successful ListBeaconIDs,
\* and returned that error at once
C10_Witness ==
    \E c \in Calls :
        /\ ops[c].op = "GetChains"
        /\ ops[c].ret # Nil
        /\ Len(ops[c].log) >= 2
        /\ ops[c].log[Len(ops[c].log)].rpc = "ChainInfo"
        /\ ops[c].log[Len(ops[c].log)].out.err \in RPCErrors
        /\ Deref(ops[c].ret).err = ops[c].log[Len(ops[c].log)].out.err

\* caller c holds the result of a GetChainInfo(m) that returned an info
Succeeded(c, m) ==
    /\ ops[c].op = "GetChainInfo"
    /\ Deref(ops[c].in).Metadata = m
    /\ ops[c].ret # Nil
    /\ Deref(ops[c].ret).err = "nil"

\* the GetChainInfo(m) that caller c makes in this step returns an info
\* without any RPC
ReturnsFromCache(c, m) ==
    /\ ops'[c].ret # Nil
    /\ Deref(ops'[c].ret).err = "nil"
    /\ Deref(ops'[c].ret).val = Load(knownChains, CacheKey(m))
    /\ ops'[c].log = <<>>

\* C11 as stated: for every metadata m and every backend reply, a
\* GetChainInfo(m) that starts after a GetChainInfo(m) has returned an info
\* returns an info without issuing a ChainInfo RPC.
C11_SecondLookupHits ==
    [][\A c \in Calls, d \in Calls, ctx \in Ctxs, m \in Metadatas :
         (Succeeded(d, m) /\ GetChainInfo(c, ctx, m)) => ReturnsFromCache(c, m)]_vars

\* the successful GetChainInfo(m) held by caller c was a cache hit, or the
\* reply it stored carries, in its metadata, the chain hash or the beacon
\* ID that makes up the whole key of m
KeyOfReply(c, m) ==
    \/ ops[c].log = <<>>
    \/ LET info == Deref(Deref(ops[c].ret).val)
       IN  CacheKey(m) \in { HexEncodeToString(info.Hash), info.BeaconId }

\* C11, amended: when the key of m (hex chain hash followed by beacon ID)
\* is the hex chain hash or the beacon ID of the metadata of the reply --
\* m sets only one of the two and the reply carries the same one -- a
\* GetChainInfo(m) that starts after a successful GetChainInfo(m) returns
\* the cached info without issuing a ChainInfo RPC.
C11_SecondLookupHitsOnStoredKey ==
    [][\A c \in Calls, d \in Calls, ctx \in Ctxs, m \in Metadatas :
         (Succeeded(d, m) /\ KeyOfReply(d, m) /\ GetChainInfo(c, ctx, m))
         => ReturnsFromCache(c, m)]_vars

\* a GetChainInfo by chain hash alone answered from the cache, with the
\* info of that chain
C11_Witness ==
    \E c \in Calls :
        LET m == [chainHash |-> <<171>>, beaconID |-> <<>>]
        IN  /\ Succeeded(c, m)
            /\ ops[c].log = <<>>
            /\ Load(knownChains, CacheKey(m)) = Deref(ops[c].ret).val
            /\ Deref(Deref(ops[c].ret).val).Hash = m.chainHash

ListedChains(c) ==
    /\ ops[c].op = "GetChains"
    /\ ops[c].ret # Nil
    /\ Deref(ops[c].ret).err = "nil"

\* C13: GetChains fails whenever a ChainInfo reply's hash differs from the
\* listed chain hash; and when a GetChains has returned, every hex hash h
\* of its list (of a chain hash that is not empty) is a key of the cache,
\* mapped to an info whose chain hash is h.
C13_ListedChainsAreCached ==
    \A c \in Calls :
        /\ (/\ ops[c].op = "GetChains"
            /\ \E i \in 2 .. Len(ops[c].log) :
                   /\ ops[c].log[i].out.err = "nil"
                   /\ Deref(ops[c].log[i].out.resp).hash
                          # ops[c].log[i].in.Metadata.chainHash)
           => (ops[c].ret # Nil /\ Deref(ops[c].ret).err = "invalid chainhash")
        /\ ListedChains(c) =>
               \A i \in 1 .. Len(Deref(Deref(ops[c].ret).val)) :
                   LET h == Deref(Deref(ops[c].ret).val)[i]
                   IN  h # <<>> =>
                           /\ h \in DOMAIN knownChains
                           /\ HexEncodeToString(knownChains[h].Hash) = h
\* the request served by goroutine c has made no PublicRand RPC
NoPublicRand(c) == \A i \in 1 .. Len(ops[c].log) : ops[c].log[i].rpc # "PublicRand"

ByRound(c) == handlers[c].handler = "GetBeacon"

Replied(c, status) == handlers[c].resp # Nil /\ Deref(handlers[c].resp).status = status

CacheControl(c) == Deref(handlers[c].resp).cacheControl

\* C14: a by-round request for a round past the next expected one is
\* answered 425 with "must-revalidate, no-cache, max-age=0" and makes no
\* PublicRand RPC; no by-round request makes a PublicRand RPC before it
\* holds the chain info.
C14_FutureRoundIsTooEarly ==
    \A c \in Calls : ByRound(c) =>
        /\ (handlers[c].info # Nil /\ handlers[c].round >= handlers[c].nextRound + 1)
               => /\ Replied(c, 425)
                  /\ CacheControl(c) = Ptr(NoCaching)
                  /\ NoPublicRand(c)
        /\ ~NoPublicRand(c) => handlers[c].info # Nil

C14_Witness ==
    \E c \in Calls : ByRound(c) /\ Replied(c, 425)
                     /\ handlers[c].round = handlers[c].nextRound + 1

\* C15: the PublicRand RPC for the next expected round is not made before
\* the clock reaches the round's time less the frontrun, which is never
\* negative; a request does not sleep for a round before the next one.
C15_NextRoundIsWaitedFor ==
    [][\A c \in Calls :
          /\ (ByRound(c) /\ NoPublicRand(c) /\ ~NoPublicRand(c)'
              /\ handlers[c].round = handlers[c].nextRound)
                 => /\ Deref(FrontrunTiming) >= 0
                    /\ now >= handlers[c].nextTime * Second - Deref(FrontrunTiming)
          /\ (ByRound(c)' /\ handlers'[c].pc = "sleep")
                 => handlers'[c].round = handlers'[c].nextRound]_vars

C15_Witness ==
    \E c \in Calls : /\ ByRound(c) /\ ~NoPublicRand(c)
                     /\ handlers[c].round = handlers[c].nextRound
                     /\ handlers[c].wake > 0
                     /\ Deref(FrontrunTiming) > 0

\* C16: the sleep for the next round of a request whose context is
\* cancelled is over: the handler is not held back until its wake time.
C16_CancelEndsTheWait ==
    \A c \in Calls :
        (ByRound(c) /\ handlers[c].pc = "sleep" /\ handlers[c].cancelled)
            => now >= handlers[c].wake

\* C18: every 200 of a by-round request for a round above 0 carries
\* "public, max-age=604800, immutable".
C18_GivenRoundIsImmutable ==
    \A c \in Calls : (ByRound(c) /\ Replied(c, 200) /\ handlers[c].round > 0)
                         => CacheControl(c) = Ptr(Immutable)

C18_Witness ==
    \E c \in Calls : /\ ByRound(c) /\ Replied(c, 200)
                     /\ handlers[c].round = handlers[c].nextRound
                     /\ handlers[c].wake > 0

\* C20: when a client call of the by-round handler fails, the reply is 504
\* without caching if the request's context was cancelled, 400 if the chain
\* hash is unknown, and 500 otherwise.
C20_FailuresAreTold ==
    \A c \in Calls :
        (ByRound(c) /\ handlers[c].resp # Nil
         /\ ops[c].ret # Nil /\ Deref(ops[c].ret).err # "nil")
            => LET err == Deref(ops[c].ret).err
               IN  /\ (handlers[c].cancelled /\ err \in CanceledErrors)
                          => Replied(c, 504) /\ CacheControl(c) = Ptr(NoCaching)
                   /\ err = UnknownChainHash => Replied(c, 400)
                   /\ err = "Unavailable" => Replied(c, 500)

HasDirective(cc, name) == \E i \in 1 .. Len(cc) : cc[i].name = name

HasMaxAge(cc, ages) ==
    \E i \in 1 .. Len(cc) :
        cc[i].name = "max-age" /\ cc[i].arg # Nil /\ Deref(cc[i].arg) \in ages

\* the request served by goroutine c asks for the latest beacon
Latest(c) == handlers[c].handler = "GetLatest" \/ (ByRound(c) /\ handlers[c].round = 0)

\* C17: every 200 to a request for the latest beacon, from the latest
\* endpoints or by round 0, carries a Cache-Control with must-revalidate
\* and a max-age between 0 and the period.
C17_LatestIsRevalidated ==
    \A c \in Calls : (Latest(c) /\ Replied(c, 200)) =>
        /\ CacheControl(c) # Nil
        /\ HasDirective(Deref(CacheControl(c)), "must-revalidate")
        /\ HasMaxAge(Deref(CacheControl(c)), 0 .. Period)

\* the 400 of the by-round handler to a round it cannot parse
MalformedRound(c) ==
    ByRound(c) /\ Replied(c, 400) /\ Deref(handlers[c].resp).body = "Failed to parse round"

\* C19: every 4xx or 5xx of a handler, but the 400 to a malformed round,
\* carries a Cache-Control with no-cache or max-age=0.
C19_FailuresAreNotCached ==
    \A c \in Calls :
        (handlers[c].resp # Nil /\ Deref(handlers[c].resp).status >= 400
         /\ ~MalformedRound(c))
            => /\ CacheControl(c) # Nil
               /\ \/ HasDirective(Deref(CacheControl(c)), "no-cache")
                  \/ HasMaxAge(Deref(CacheControl(c)), { 0 })

Health(c) == handlers[c].handler = "GetHealth"

\* the round of the latest beacon the health handler holds
LatestRound(c) == handlers[c].fetched[Len(handlers[c].fetched)].Round

\* C22: a health request is answered 200 exactly when the latest round is
\* at least the next round less 2, taken over the integers, else 503; the
\* body holds the latest round and the next round less 1.
C22_HealthStatus ==
    \A c \in Calls :
        (Health(c) /\ (Replied(c, 200) \/ Replied(c, 503))) =>
            /\ Replied(c, 200) <=> LatestRound(c) >= handlers[c].nextRound - 2
            /\ Deref(handlers[c].resp).body =
                   [current |-> LatestRound(c), expected |-> handlers[c].nextRound - 1]

\* the latest round is behind the next round less 2, over the integers
IsBehindInt(next, round) == next - 2 > round

\* the health handler went on to its second fetch
Retried(c) ==
    handlers[c].info # Nil /\ (handlers[c].pc = "retry" \/ ops[c].op = "GetBeacon")

\* C23: the health handler fetches the latest beacon a second time, with
\* skip_first in the context, exactly when the first fetch is behind the
\* next round less 2; it does so once, and the reply is made from the
\* second fetch.
C23_HealthRetriesOnce ==
    \A c \in Calls : (Health(c) /\ handlers[c].info # Nil) =>
        /\ Retried(c) <=> IsBehindInt(handlers[c].nextRound, handlers[c].fetched[1].Round)
        /\ ops[c].op = "GetBeacon" =>
               \A i \in 1 .. Len(ops[c].log) : ops[c].log[i].ctx.skip
        /\ Len(handlers[c].fetched) <= 2
        /\ ~handlers[c].fetched[1].skip
        /\ (Replied(c, 200) \/ Replied(c, 503)) =>
               Deref(handlers[c].resp).body.current = LatestRound(c)

\* C24: a by-round request for the latest beacon that is answered with a
\* beacon behind the next round less 2 has fetched it with skip_first in
\* the context of some RPC.
C24_StaleLatestIsRefetched ==
    \A c \in Calls :
        (ByRound(c) /\ handlers[c].round = 0 /\ Replied(c, 200)
         /\ IsBehindInt(handlers[c].nextRound, Deref(handlers[c].resp).body.round))
            => \E i \in 1 .. Len(ops[c].log) : ops[c].log[i].ctx.skip

\* the request served by goroutine c is answered with a beacon
Beacon(c) ==
    /\ handlers[c].handler \in { "GetBeacon", "GetLatest", "GetNext" }
    /\ Replied(c, 200)

\* the PublicRand reply the beacon of the response was made from
Sent(c) == Deref(ops[c].log[Len(ops[c].log)].out.resp)

C26_CancelEndsWatch ==
    \A c \in Calls :
        watch[c].cancelled ~> (watch[c].pc = "done" /\ watch[c].closed)

\* goroutine c has just read ExpectedNext
ReadsExpected(c) ==
    handlers'[c] # handlers[c] /\ handlers'[c].handler = "ExpectedNext"

\* C27: whatever the period, the genesis time and the clock, the clock
\* before the genesis time included, ExpectedNext returns the time
\* genesis + round * period, and that time is at or after the clock and
\* at most one period after it.
C27_ExpectedTimeIsWithinAPeriod ==
    [][\A c \in Calls :
          ReadsExpected(c) =>
              LET h == handlers'[c]
                  info == Deref(h.info)
              IN  /\ h.nextTime = info.GenesisTime + h.nextRound * info.Period
                  /\ 0 <= h.nextTime - Unix(now)
                  /\ h.nextTime - Unix(now) <= info.Period]_vars

\* floor((now - genesis) / period)
PeriodsSince(info, t) == (Unix(t) - info.GenesisTime) \div info.Period

\* C28: with k whole periods between the genesis time and the clock,
\* ExpectedNext returns the time genesis + (k + 1) * period and the round
\* k + 2.
C28_ExpectedRoundIsTheNextRound ==
    [][\A c \in Calls :
          ReadsExpected(c) =>
              LET h == handlers'[c]
                  info == Deref(h.info)
                  k == PeriodsSince(info, now)
              IN  /\ h.nextTime = info.GenesisTime + (k + 1) * info.Period
                  /\ h.nextRound = k + 2]_vars

\* strings.ToLower on a string of the characters of JSONInputs
LowerOf(ch) ==
    IF \E i \in 1 .. 6 : UpperHexDigits[i] = ch
    THEN HexDigits[(CHOOSE i \in 1 .. 6 : UpperHexDigits[i] = ch) + 10]
    ELSE ch

ToLower(str) == [i \in 1 .. Len(str) |-> LowerOf(str[i])]

HexBytesLog(c) == IF ops[c].op = "HexBytes" THEN ops[c].log ELSE <<>>

\* decode(encode(b)) = b, on any target
DecodeOfEncode(log) ==
    (Len(log) = 2 /\ log[1].call = "MarshalJSON") =>
        log[2].err = "nil" /\ log[2].after = log[1].h

\* encode(decode(s)) = lower(s) for a string s that decodes
EncodeOfDecode(log) ==
    (Len(log) = 2 /\ log[1].call = "UnmarshalJSON" /\ log[1].data.kind = "string") =>
        log[2].data = JSONString(ToLower(log[1].data.str))

\* an even number of hex digits decodes
EvenHexDecodes(log) ==
    \A i \in 1 .. Len(log) :
        (/\ log[i].call = "UnmarshalJSON" /\ log[i].data.kind = "string"
         /\ Len(log[i].data.str) % 2 = 0
         /\ \A k \in 1 .. Len(log[i].data.str) : IsHexDigit(log[i].data.str[k]))
            => log[i].err = "nil"

\* an odd-length string fails and the target is as before
OddLengthFails(log) ==
    \A i \in 1 .. Len(log) :
        (/\ log[i].call = "UnmarshalJSON" /\ log[i].data.kind = "string"
         /\ Len(log[i].data.str) % 2 = 1)
            => log[i].err # "nil" /\ log[i].after = log[i].h

\* a document that is no string fails and the target is as before
NonStringFails(log) ==
    \A i \in 1 .. Len(log) :
        (log[i].call = "UnmarshalJSON" /\ log[i].data.kind # "string")
            => log[i].err # "nil" /\ log[i].after = log[i].h

\* C29: HexBytes survives the round trip through JSON: unmarshalling what
\* MarshalJSON wrote gives the bytes back, marshalling what UnmarshalJSON
\* read from an even-length hex string gives that string in lower case, and
\* unmarshalling an odd-length string or a document that is no string is
\* an error that leaves the target as it was.
C29_HexBytesRoundTrip ==
    \A c \in Calls :
        /\ DecodeOfEncode(HexBytesLog(c))
        /\ EncodeOfDecode(HexBytesLog(c))
        /\ EvenHexDecodes(HexBytesLog(c))
        /\ OddLengthFails(HexBytesLog(c))
        /\ NonStringFails(HexBytesLog(c))

\* the non-nil elements of a slice
NonNil(scs) == { scs[i] : i \in { k \in 1 .. Len(scs) : scs[k] # Nil } }

\* the number of non-nil elements of a slice
NumNonNil(scs) == Cardinality({ k \in 1 .. Len(scs) : scs[k] # Nil })

\* C30: the slice that a sequence of insert calls builds from nil slots is
\* in ascending order of priority over its non-nil entries, has its nil
\* slots after them, is longer than at the start by the number of non-nil
\* entries inserted, and holds these entries as they were handed in.
C30_InsertKeepsSorted ==
    \A c \in Calls :
        ops[c].op = "insert" =>
            LET scs == Deref(ops[c].ret)
                log == ops[c].log
            IN  /\ \A i, j \in 1 .. Len(scs) :
                       (i < j /\ scs[i] # Nil /\ scs[j] # Nil)
                           => Deref(scs[i]).priority <= Deref(scs[j]).priority
                /\ \A i, j \in 1 .. Len(scs) : (i < j /\ scs[i] = Nil) => scs[j] = Nil
                /\ Len(scs) = Deref(ops[c].in) + NumNonNil(log)
                /\ NumNonNil(scs) = NumNonNil(log)
                /\ NonNil(scs) = NonNil(log)

\* three calls on a slice of nil slots: a nil, and two entries handed in
\* in descending order of priority
C30_Witness ==
    \E c \in Calls :
        /\ ops[c].op = "insert" /\ Deref(ops[c].in) = MaxNils
        /\ Len(ops[c].log) = 3
        /\ ops[c].log[2] = Nil /\ ops[c].log[1] # Nil /\ ops[c].log[3] # Nil
        /\ Deref(ops[c].log[1]).priority > Deref(ops[c].log[3]).priority
        /\ Deref(ops[c].ret)[1] = ops[c].log[3]
        /\ Deref(ops[c].ret)[2] = ops[c].log[1]
        /\ Deref(ops[c].ret)[3] = Nil

\* C31: the resolver hands the channel one address per entry of the
\* endpoint list, in the order of the list, the i-th with the order
\* attribute i (counted from 0), and a reconciliation over READY SubConns
\* leaves for each of them an entry with order = priority = i.
C31_ResolverOrdersAddresses ==
    /\ resolved # Nil =>
           \A i \in 1 .. Len(Deref(resolved)) :
               AttributesValue(Deref(resolved)[i], "order") = Ptr(i - 1)
    /\ picker = "fb" =>
           /\ DOMAIN scAddrs # {}
           /\ \A sc \in DOMAIN scAddrs :
                  scAddrs[sc].order = sc /\ scAddrs[sc].priority = sc

\* C32: the JSON of NewHexBeacon(b) always holds round and signature,
\* holds previous_signature exactly when that of b is not empty, and
\* holds randomness exactly when that of b is not empty.
C32_OptionalFieldsFollowTheBeacon ==
    \A c \in Calls :
        ops[c].op = "NewHexBeacon" =>
            LET b == RandomData(Deref(ops[c].in))
                json == Deref(ops[c].ret)
            IN  /\ "round" \in DOMAIN json
                /\ "signature" \in DOMAIN json
                /\ "previous_signature" \in DOMAIN json <=> b.previous_signature # <<>>
                /\ "randomness" \in DOMAIN json <=> b.randomness # <<>>

\* C33: a reconciliation adds fresh entries for the SubConns that are
\* newly READY only: an entry that is in the map and still READY is kept
\* as it is, with the priority it has been demoted to.
C33_ReconciliationKeepsPriorities ==
    [][\A ready \in SUBSET SubConns, hasOrder \in BOOLEAN :
         (Build(ready, hasOrder) /\ ready # {}) =>
             /\ \A sc \in DOMAIN scAddrs \cap ready :
                    sc \in DOMAIN scAddrs' /\ scAddrs'[sc] = scAddrs[sc]
             /\ \A sc \in DOMAIN scAddrs' \ DOMAIN scAddrs :
                    sc \in ready /\ scAddrs'[sc] = NewSca(sc, AddrOrder(sc))]_vars

\* C34: a Pick is decided by the state of the map alone, also when entries
\* are tied on the smallest priority: the entry it returns is the only one
\* a Pick in that state can return.
C34_PickIsDeterministic ==
    [][\A c \in Calls :
         (PickFirst(c, FALSE) /\ picker = "fb") =>
             \A picked \in firstResults(scAddrs) : calls'[c].picked = picked]_vars

\* C35: a key of the chain-info cache keeps the value first stored under
\* it: no GetChainInfo and no GetChains call replaces it.
C35_CachedValuesAreNeverReplaced ==
    [][\A key \in DOMAIN knownChains :
         key \in DOMAIN knownChains' /\ knownChains'[key] = knownChains[key]]_vars

\* C36 as stated: the logging picker returns what the wrapped picker
\* returns, and every call of its Done closure runs the Done closure of
\* the wrapped picker.
C36_LoggingForwardsEveryDone ==
    [][\A c \in Calls :
         /\ \A skip \in BOOLEAN : LogPick(c, skip) => PickFirst(c, skip)
         /\ \A info \in DoneInfos : LogDone(c, info) => Done(c, info.Err)]_vars

\* C36, amended: the logging picker returns what the wrapped picker
\* returns; its Done closure runs the Done closure of the wrapped picker
\* except on a DoneInfo without error and without bytes sent or received,
\* which it drops; and after every call of it the map is what the wrapped
\* Done closure would have left.
C36_LoggingKeepsPriorities ==
    [][\A c \in Calls :
         /\ \A skip \in BOOLEAN : LogPick(c, skip) => PickFirst(c, skip)
         /\ \A info \in DoneInfos :
                LogDone(c, info) =>
                    /\ IF NotReady(info)
                       THEN calls'[c] = NotForwarded
                       ELSE Done(c, info.Err)
                    /\ scAddrs' = IF info.Err
                                  THEN decMap(scAddrs, Deref(calls[c].picked))
                                  ELSE scAddrs]_vars

\* a Done without error and without bytes was dropped, after a Done with
\* an error had demoted an entry
C36_Witness ==
    \E c \in Calls :
        /\ calls[c] = NotForwarded
        /\ \E sc \in DOMAIN scAddrs : scAddrs[sc].priority = scAddrs[sc].order - 2

\* C37: a caller that keeps receiving from what Watch returned sees the
\* end of it once the stream has ended, a context is done, or the stream
\* could not be opened.
C37_ReaderSeesTheEnd ==
    \A c \in Calls :
        (watch[c].ret # "none" /\ (watch[c].cancelled \/ watch[c].pc = "done"))
            ~> watch[c].ended

\* the distance of an entry's priority below its order
Demotion(s) == s.order - s.priority

\* this step is a dec(sc): by a skip_first Pick or by a Done with an error
Demoted(sc) ==
    \E c \in Calls :
        /\ calls[c].picked = Ptr(sc)
        /\ PickDec(c) \/ Done(c, TRUE)

\* this step creates the entry of sc or resets it: a Build that finds sc
\* READY with its order attribute, or a tick
CreatedOrReset(sc) ==
    \/ Tick
    \/ \E ready \in SUBSET SubConns : sc \in ready /\ Build(ready, TRUE)

C39_SkippingPickHasItsFirst ==
    \A c \in Calls :
        calls[c].pc = "dec" =>
            /\ calls[c].picked # Nil
            /\ Deref(calls[c].picked) \in DOMAIN scAddrs
            /\ calls[c].picked # calls[c].second

====
